---- MODULE Spec2Model ----
(***************************************************************************)
(* The pipeline event narrator of ChatInterface (services/socket.ts and    *)
(* components/chat/ChatInterface.tsx): the status list, the raw event log,  *)
(* the streaming flag, the status-clear timers and sendMessage.            *)
(*                                                                         *)
(* A useState setter is modelled as an assignment to the state cell; each  *)
(* handler runs to its first await as one step (JavaScript runs a callback *)
(* to completion and React applies the queued updaters in call order).     *)
(* The ts field of a log entry (payload.ts || Date.now()) is a wall-clock   *)
(* stamp that no handler reads and is left out of the entry.               *)
(***************************************************************************)
EXTENDS Integers, Sequences, FiniteSets, TLC

\* ------------------------------------------------------------------ bounds
\* pipeline events handled in one run
MaxSteps == 3
\* status-clear timers pending at once
MaxTimers == 1
\* accepted sendMessage calls
MaxQuestions == 2
\* largest array length / count carried by a payload
MaxCount == 2

\* --------------------------------------------------------------- constants
\* setTimeout(..., 3000)
ClearDelay == 3000

\* the array literal the effect registers and detaches
EventNames ==
    << "embedding_start", "embedding_done", "search_start", "search_results",
       "rag_context", "ai_start", "ai_done" >>

EventSet == { EventNames[i] : i \in DOMAIN EventNames }

\* --------------------------------------------------------------- payloads
\* An optional field is <<>> when the payload does not carry it and <<n>>
\* when it does: n is the length of the array (results, passages) or the
\* number (resultCount).
Opt == { <<>> } \cup { <<n>> : n \in 0..MaxCount }

Payloads == [ results : Opt, resultCount : Opt, passages : Opt ]

EmptyPayload == [ results |-> <<>>, resultCount |-> <<>>, passages |-> <<>> ]

\* JavaScript truthiness of an optional number: undefined and 0 are falsy
Truthy(o) == o # <<>> /\ o[1] # 0

\* payload?.results?.length || payload?.resultCount || 0
SearchCount(payload) ==
    IF Truthy(payload.results) THEN payload.results[1]
    ELSE IF Truthy(payload.resultCount) THEN payload.resultCount[1]
    ELSE 0

\* variant: the count of rag_context read the way search_results reads it
ContextCount_FromResults(payload) ==
    IF Truthy(payload.results) THEN payload.results[1]
    ELSE IF Truthy(payload.resultCount) THEN payload.resultCount[1]
    ELSE 0

\* payload?.passages?.length || 0
ContextCount(payload) ==
    IF Truthy(payload.passages) THEN payload.passages[1] ELSE 0

\* variant: cnt <= 1 in place of cnt === 1
Plural_AtMostOne(cnt) == IF cnt <= 1 THEN "" ELSE "s"

\* `passage${cnt === 1 ? '' : 's'}`
Plural(cnt) == IF cnt = 1 THEN "" ELSE "s"

\* the lines one call of handleEvent(type)(payload) offers to appendStatus,
\* in call order (the switch has no default branch)
StatusLines(type, payload) ==
    CASE type = "embedding_start" ->
           << "Analyzing your question (building semantic vector)..." >>
      [] type = "embedding_done" ->
           << "Understanding captured. Searching knowledge base for matches..." >>
      [] type = "search_start" ->
           << "Scanning indexed content for relevant chunks..." >>
      [] type = "search_results" ->
           << "Found " \o ToString(SearchCount(payload)) \o " candidate passage"
              \o Plural(SearchCount(payload)) \o ". Refining context..." >>
      [] type = "rag_context" ->
           << "Selected top " \o ToString(ContextCount(payload)) \o " passage"
              \o Plural(ContextCount(payload)) \o " to ground the answer." >>
      [] type = "ai_start" ->
           << "Generating answer grounded in retrieved context..." >>
      [] type = "ai_done" ->
           << "Answer ready." >>
      [] OTHER -> << >>

\* variant: no comparison with the last line
appendStatus_Always(prev, line) == Append(prev, line)

\* variant: prev.includes(line) in place of the comparison with the last line
appendStatus_Includes(prev, line) ==
    IF \E i \in DOMAIN prev : prev[i] = line THEN prev ELSE Append(prev, line)

\* the updater of appendStatus: prev[prev.length - 1] === line ? prev : [...prev, line]
appendStatus(prev, line) ==
    IF prev # << >> /\ prev[Len(prev)] = line THEN prev ELSE Append(prev, line)

RECURSIVE appendAll(_, _)
\* the appendStatus calls of one handleEvent call, applied in order
appendAll(prev, lines) ==
    IF lines = << >> THEN prev
    ELSE appendAll(appendStatus(prev, Head(lines)), Tail(lines))

\* ------------------------------------------------------------------ state
VARIABLES
    statusMessages,   \* useState<string[]>: the narrative shown to the user
    pipelineSteps,    \* useState<PipelineStep[]>: the raw event log
    streaming,        \* useState(false)
    messages,         \* useState<ChatMessage[]>
    currentSession,   \* useState<ChatSession | null>: <<>> is null
    isSending,        \* useState(false)
    error,            \* useState<string | null>: <<>> is null
    timers,           \* pending setTimeout callbacks, in the order they are due
    pending,          \* chatAPI.sendMessage requests awaiting their response
    listeners,        \* event names that have a handler on the socket
    mounted,          \* the chat view is mounted
    question,         \* history: number of accepted sendMessage calls
    statusQ,          \* history: for each status line, the question it was appended in
    wire,             \* history: events handed to a handler since the last reset
    handled,          \* history: number of events handed to a handler
    dropped,          \* history: an event arrived with no handler attached
    evtType,          \* the event of a single delivery (LineSpec)
    evtPayload,       \* its payload
    \* DocumentList
    documents,        \* useState<Document[]>
    docIsLoading,     \* useState(false), set by loadDocuments
    deleteConfirm,    \* useState<string | null>: <<>> is null
    docCalls,         \* contentAPI requests of the list awaiting their response
    docAlerts,        \* the alert() dialogs the list has shown, in order
    docUpdates,       \* calls of the onDocumentUpdate prop
    serverDocs,       \* what GET /content/documents answers when it succeeds
    docFailed,        \* history: the requests of the list that were rejected
    \* AuthProvider, the router, the axios instance and the socket module
    storage,          \* localStorage: for each key <<>> (absent) or << string >>
    auth,             \* useReducer(authReducer, initialState)
    location,         \* the path the router is at
    href,             \* window.location.href assigned, page not yet reloaded
    requests,         \* requests of the axios instance awaiting their response
    socket,           \* the module-level socket of services/socket
    socketFor,        \* history: the stored access token when io() was called
    booting,          \* the page has rendered once, mount effects not yet run
    lastOp,           \* history: the operation of the last step
    lastResponse,     \* history: the last response and what its caller saw
    dispatched,       \* history: the actions handed to authReducer, one by one
    opened,           \* history: the address of the last page load
    \* FileUpload
    files,            \* useState<UploadFile[]>
    nextFileId,       \* the files selected so far, plus one
    runs,             \* the calls of uploadFiles: queue, position, history
    uploadRequests,   \* contentAPI.uploadFile requests awaiting their response
    \* config
    env,              \* process.env: for each variable <<>> (not set) or << string >>
    nodeEnv,          \* process.env.NODE_ENV
    config,           \* the exported config object
    warnings,         \* console.warn calls, in order
    configLogs,       \* console.log calls of validateConfig
    validated,        \* validateConfig has run
    \* URLScraper
    urls,             \* useState<ScrapeJob[]>
    nextJobId,        \* the jobs added so far, plus one
    previewData,      \* useState: <<>> is null, else the links of the preview
    previews,         \* contentAPI.previewUrl requests awaiting their response
    batches,          \* the calls of processSelectedUrls: links, counters, history
    scrapeCompletes,  \* calls of the onScrapeComplete prop
    \* ChatInterface, the sessions
    sessions,         \* useState<ChatSession[]>: the ids, in the order of the sidebar
    chatIsLoading,    \* useState(false): isLoading
    sessionCalls,     \* chatAPI session requests awaiting their response
    created,          \* the sessions the server has created since the page opened
    lastSelect,       \* history: the session of the last click, <<>> after any other change
    \* MessageInput
    draft,            \* useState(''): message, the text in the textarea
    submits           \* history: the calls of handleSubmit

vars ==
    << statusMessages, pipelineSteps, streaming, messages, currentSession,
       isSending, error, timers, pending, listeners, mounted, question,
       statusQ, wire, dropped, handled, evtType, evtPayload,
       documents, docIsLoading, deleteConfirm, docCalls, docAlerts, docUpdates,
       serverDocs, docFailed,
       storage, auth, location, href, requests, socket, socketFor, booting,
       lastOp, lastResponse, dispatched, opened, files, nextFileId, runs, uploadRequests,
       env, nodeEnv, config, warnings, configLogs, validated,
       urls, nextJobId, previewData, previews, batches, scrapeCompletes,
       sessions, chatIsLoading, sessionCalls, created, lastSelect, draft, submits >>

narratorVars == << statusMessages, pipelineSteps, streaming, timers, statusQ, wire >>

chatVars == << messages, currentSession, isSending, error, pending, question >>

inputVars == << evtType, evtPayload >>

formVars == << draft, submits >>

docVars ==
    << documents, docIsLoading, deleteConfirm, docCalls, docAlerts, docUpdates,
       serverDocs, docFailed >>

authVars ==
    << storage, auth, location, href, requests, socket, socketFor, booting,
       lastOp, lastResponse, dispatched, opened >>

uploadVars == << files, nextFileId, runs, uploadRequests >>

configVars == << env, nodeEnv, config, warnings, configLogs, validated >>

scrapeVars == << urls, nextJobId, previewData, previews, batches, scrapeCompletes >>

sessionVars == << sessions, chatIsLoading, sessionCalls, created, lastSelect >>

\* the state of the content-management and authentication views, and the
\* session list, which neither the narrator nor a send writes
pageVars == << docVars, authVars, uploadVars, configVars, scrapeVars, sessionVars >>

\* the state of the chat view
chatViewVars ==
    << narratorVars, chatVars, listeners, mounted, dropped, handled, inputVars,
       sessionVars, formVars >>

NoSession == << >>

NoError == << >>

Last(s) == s[Len(s)]

\* prev.slice(0, -1)
DropLast(s) == IF s = << >> THEN << >> ELSE SubSeq(s, 1, Len(s) - 1)

\* ---------------------------------------------------------------- strings
\* A typed message is a sequence of characters.
Blank == " "

RECURSIVE TrimLeft(_)
TrimLeft(s) ==
    IF s # << >> /\ Head(s) = Blank THEN TrimLeft(Tail(s)) ELSE s

RECURSIVE TrimRight(_)
TrimRight(s) ==
    IF s # << >> /\ Last(s) = Blank THEN TrimRight(DropLast(s)) ELSE s

\* String.prototype.trim
Trim(s) == TrimRight(TrimLeft(s))

\* what the user may have typed when the form is submitted
Typed == { << >>, << " " >>, << "q" >>, << " ", "q" >> }

\* ------------------------------------------------------------------- Init
\* the state after the first render and its mount effect: the handlers of
\* the seven events are attached; a session may already have been loaded
InitChat ==
    /\ statusMessages = << >>
    /\ pipelineSteps = << >>
    /\ streaming = FALSE
    /\ messages = << >>
    /\ isSending = FALSE
    /\ error = NoError
    /\ timers = << >>
    /\ pending = << >>
    /\ listeners = EventSet
    /\ mounted = TRUE
    /\ question = 0
    /\ statusQ = << >>
    /\ wire = << >>
    /\ dropped = FALSE
    /\ handled = 0
    /\ draft = << >>
    /\ submits = 0

\* loadSessions has returned: the sidebar lists the session that is shown
SessionsLoaded ==
    /\ sessions = IF currentSession = NoSession THEN << >>
                  ELSE << currentSession[1].id >>
    /\ chatIsLoading = FALSE
    /\ sessionCalls = << >>
    /\ created = 0
    /\ lastSelect = << >>

\* DocumentList before it is mounted: nothing loaded, nothing requested
DocUnmounted ==
    /\ documents = << >>
    /\ docIsLoading = FALSE
    /\ deleteConfirm = << >>
    /\ docCalls = { }
    /\ docAlerts = << >>
    /\ docUpdates = 0
    /\ serverDocs = << >>
    /\ docFailed = << >>

\* a signed-in user at /chat, no request in flight
AuthIdle ==
    /\ storage = [ k \in { "access_token", "user", "token" } |->
                     IF k = "access_token" THEN << "t1" >>
                     ELSE IF k = "user" THEN << "{\"id\":1,\"name\":\"ann\"}" >>
                     ELSE << >> ]
    /\ auth = [ user |-> << [ id |-> 1, name |-> "ann" ] >>, token |-> << "t1" >>,
                isAuthenticated |-> TRUE, isLoading |-> FALSE, error |-> << >> ]
    /\ location = "/chat"
    /\ href = << >>
    /\ requests = << >>
    /\ socket = [ state |-> "connected", auth |-> << >> ]
    /\ socketFor = << "t1" >>
    /\ booting = FALSE
    /\ lastOp = "other"
    /\ lastResponse = << >>
    /\ dispatched = << >>
    /\ opened = "/chat"

\* FileUpload as it is first rendered: no file selected
UploadEmpty ==
    /\ files = << >>
    /\ nextFileId = 1
    /\ runs = << >>
    /\ uploadRequests = { }

\* a production build with no variable set, validateConfig done
ConfigDone ==
    /\ env = [ v \in { "REACT_APP_API_BASE_URL", "REACT_APP_API_TIMEOUT",
                       "REACT_APP_SOCKET_URL", "REACT_APP_SOCKET_PATH" } |-> << >> ]
    /\ nodeEnv = "production"
    /\ config = [ API_BASE_URL |-> "http://localhost:3000/api", API_TIMEOUT |-> 30000,
                  SOCKET_URL |-> "http://localhost:3000", SOCKET_PATH |-> "/ws",
                  isDevelopment |-> FALSE, isProduction |-> TRUE ]
    /\ warnings = << >>
    /\ configLogs = 0
    /\ validated = TRUE

\* URLScraper as it is first rendered: no job, no preview
ScraperEmpty ==
    /\ urls = << >>
    /\ nextJobId = 1
    /\ previewData = << >>
    /\ previews = { }
    /\ batches = << >>
    /\ scrapeCompletes = 0

\* the chat page is open: no other view is mounted
PagesUnmounted ==
    DocUnmounted /\ AuthIdle /\ UploadEmpty /\ ConfigDone /\ ScraperEmpty

Init ==
    /\ InitChat
    /\ currentSession \in { NoSession, << [ id |-> 1 ] >> }
    /\ SessionsLoaded
    /\ evtType = EventNames[1]
    /\ evtPayload = EmptyPayload
    /\ PagesUnmounted

\* ---------------------------------------------------------------- actions
\* variant: [{ type, ts, info: payload }, ...prev]
stepsAfter_Prepend(prev, type, payload) ==
    << [ type |-> type, info |-> payload ] >> \o prev

\* setPipelineSteps(prev => [...prev, { type, ts, info: payload }])
stepsAfter(prev, type, payload) ==
    Append(prev, [ type |-> type, info |-> payload ])

\* variant: ai_done without setStreaming(false)
streamingAfter_NoReset(type, cur) ==
    IF type = "ai_start" THEN TRUE ELSE cur

\* the setStreaming calls of the switch
streamingAfter(type, cur) ==
    CASE type = "ai_start" -> TRUE
      [] type = "ai_done" -> FALSE
      [] OTHER -> cur

\* variant: ai_done without the setTimeout call
timersAfter_NoTimer(type, cur, q) == cur

\* the setTimeout call of the switch; q is the question the call is made in
timersAfter(type, cur, q) ==
    IF type = "ai_done"
    THEN Append(cur, [ delay |-> ClearDelay, q |-> q ])
    ELSE cur

\* handleEvent(type)(payload)
handleEvent(type, payload) ==
    /\ pipelineSteps' = stepsAfter(pipelineSteps, type, payload)
    /\ statusMessages' = appendAll(statusMessages, StatusLines(type, payload))
    /\ statusQ' = IF statusMessages' = statusMessages THEN statusQ
                  ELSE Append(statusQ, question)
    /\ streaming' = streamingAfter(type, streaming)
    /\ timers' = timersAfter(type, timers, question)

\* the payloads the transport delivers in the full model
WirePayloads(type) ==
    CASE type = "search_results" ->
           { [ EmptyPayload EXCEPT !.results = << MaxCount >> ] }
      [] type = "rag_context" ->
           { [ EmptyPayload EXCEPT !.passages = << 1 >> ] }
      [] OTHER -> { EmptyPayload }

\* socket.io hands an incoming event to the handler registered for its name
DeliverEvent(type, payload) ==
    /\ type \in listeners
    /\ handleEvent(type, payload)
    /\ handled' = handled + 1
    /\ wire' = Append(wire, [ type |-> type, info |-> payload ])
    /\ UNCHANGED << chatVars, listeners, mounted, dropped, inputVars, formVars,
                    pageVars >>

\* the socket receives an event that has a handler attached
Deliver ==
    \E type \in EventSet : \E payload \in WirePayloads(type) :
        /\ handled < MaxSteps
        /\ type = "ai_done" => Len(timers) < MaxTimers
        /\ DeliverEvent(type, payload)

\* the socket receives an event that has no handler attached
DeliverDropped ==
    \E type \in EventSet :
        /\ type \notin listeners
        /\ ~dropped
        /\ dropped' = TRUE
        /\ UNCHANGED << narratorVars, chatVars, listeners, mounted, handled, inputVars,
                        formVars, pageVars >>

\* the callback of setTimeout(() => setStatusMessages([]), 3000); equal
\* delays fire in the order they were scheduled
TimerFire ==
    /\ timers # << >>
    /\ timers' = Tail(timers)
    /\ statusMessages' = << >>
    /\ statusQ' = << >>
    /\ UNCHANGED << pipelineSteps, streaming, wire, chatVars, listeners, mounted,
                    dropped, handled, inputVars, formVars, pageVars >>

\* variant: sendMessage without setPipelineSteps([])
sendMessage_KeepSteps(content) ==
    /\ currentSession # NoSession
    /\ Trim(content) # << >>
    /\ isSending' = TRUE
    /\ error' = NoError
    /\ messages' = Append(messages,
           [ id |-> question + 1, role |-> "user", content |-> Trim(content) ])
    /\ statusMessages' = << >>
    /\ pending' = Append(pending,
           [ sessionId |-> currentSession[1].id, message |-> Trim(content),
             userMessage |-> [ id |-> question + 1, role |-> "user",
                               content |-> Trim(content) ] ])
    /\ question' = question + 1
    /\ statusQ' = << >>
    /\ wire' = << >>
    /\ UNCHANGED << pipelineSteps, streaming, timers, currentSession, listeners,
                    mounted, dropped, handled, inputVars, pageVars >>

\* sendMessage, up to the await
sendMessage(content) ==
    /\ currentSession # NoSession
    /\ Trim(content) # << >>
    /\ isSending' = TRUE
    /\ error' = NoError
    /\ messages' = Append(messages,
           [ id |-> question + 1, role |-> "user", content |-> Trim(content) ])
    /\ pipelineSteps' = << >>
    /\ statusMessages' = << >>
    /\ pending' = Append(pending,
           [ sessionId |-> currentSession[1].id, message |-> Trim(content),
             userMessage |-> [ id |-> question + 1, role |-> "user",
                               content |-> Trim(content) ] ])
    /\ question' = question + 1
    /\ statusQ' = << >>
    /\ wire' = << >>
    /\ UNCHANGED << streaming, timers, currentSession, listeners, mounted,
                    dropped, handled, inputVars, pageVars >>

\* MessageInput.handleSubmit: the form calls onSendMessage(message.trim())
Submit ==
    \E typed \in Typed :
        /\ mounted
        /\ currentSession # NoSession      \* MessageInput is rendered
        /\ Trim(typed) # << >>
        /\ ~isSending                      \* disabled={isSending}
        /\ question < MaxQuestions
        /\ sendMessage(Trim(typed))
        /\ UNCHANGED formVars

\* chatAPI.sendMessage resolves
SendResolve ==
    /\ pending # << >>
    /\ messages' = DropLast(messages) \o
           << Head(pending).userMessage,
              [ id |-> Head(pending).userMessage.id, role |-> "assistant",
                content |-> << "a" >> ] >>
    /\ isSending' = FALSE
    /\ pending' = Tail(pending)
    /\ UNCHANGED << narratorVars, currentSession, error, question, listeners,
                    mounted, dropped, handled, inputVars, formVars, pageVars >>

\* variant: no finally block after the catch
SendReject_NoFinally ==
    /\ pending # << >>
    /\ error' = << "Failed to send message" >>
    /\ messages' = DropLast(messages)
    /\ pending' = Tail(pending)
    /\ UNCHANGED << narratorVars, currentSession, isSending, question, listeners,
                    mounted, dropped, handled, inputVars, formVars, pageVars >>

\* chatAPI.sendMessage rejects
SendReject ==
    /\ pending # << >>
    /\ error' = << "Failed to send message" >>
    /\ messages' = DropLast(messages)
    /\ isSending' = FALSE
    /\ pending' = Tail(pending)
    /\ UNCHANGED << narratorVars, currentSession, question, listeners, mounted,
                    dropped, handled, inputVars, formVars, pageVars >>

\* variant: the cleanup's list lacks ai_done
DetachedEvents_Partial == EventSet \ { "ai_done" }

\* the event names the effect's cleanup passes to sock.off
DetachedEvents == EventSet

\* the cleanup of the mount effect
Unmount ==
    /\ mounted
    /\ mounted' = FALSE
    /\ listeners' = listeners \ DetachedEvents
    /\ UNCHANGED << narratorVars, chatVars, dropped, handled, inputVars, formVars,
                    pageVars >>

Next ==
    \/ Deliver
    \/ DeliverDropped
    \/ TimerFire
    \/ Submit
    \/ SendResolve
    \/ SendReject
    \/ Unmount

Spec == Init /\ [][Next]_vars

\* ------------------------------------------------- one delivery, any payload
\* a freshly mounted view receives one event, drawn with its payload from
\* every name and every payload shape
InitLine ==
    /\ InitChat
    /\ currentSession = NoSession
    /\ SessionsLoaded
    /\ evtType \in EventSet
    /\ evtPayload \in Payloads
    /\ PagesUnmounted

DeliverGiven ==
    /\ handled = 0
    /\ DeliverEvent(evtType, evtPayload)

LineSpec == InitLine /\ [][DeliverGiven]_vars

\* ------------------------------------------------------------ DocumentList
MaxDocs == 2

MaxAlerts == 2

\* a document as the list shows it: its id and its title
ServerDoc(i) == [ id |-> "doc" \o ToString(i), title |-> "Title " \o ToString(i) ]

\* the answers GET /content/documents can give
ServerAnswers == { [ i \in 1..n |-> ServerDoc(i) ] : n \in 0..MaxDocs }

\* loadDocuments, catch: the three documents written into the component
mockDocs ==
    << [ id |-> "1", title |-> "AI Breakthrough in Natural Language Processing" ],
       [ id |-> "2", title |-> "Climate Change Impact on Technology" ],
       [ id |-> "3", title |-> "Quantum Computing Advances" ] >>

GetDocuments == [ op |-> "getDocuments", id |-> "" ]

DeleteCall(docId) == [ op |-> "deleteDocument", id |-> docId ]

DeleteFailedAlert == "Failed to delete document. Please try again."

DocIds(docs) == { docs[i].id : i \in 1..Len(docs) }

\* prev.filter(d => d.id !== docId)
RECURSIVE WithoutDoc(_, _)
WithoutDoc(docs, docId) ==
    IF docs = << >> THEN << >>
    ELSE IF Head(docs).id = docId THEN WithoutDoc(Tail(docs), docId)
    ELSE << Head(docs) >> \o WithoutDoc(Tail(docs), docId)

\* the list is mounted: its effect has called loadDocuments, which has set
\* isLoading and awaits contentAPI.getDocuments()
InitDoc ==
    /\ InitChat
    /\ currentSession = NoSession
    /\ SessionsLoaded
    /\ evtType = EventNames[1]
    /\ evtPayload = EmptyPayload
    /\ documents = << >>
    /\ docIsLoading = TRUE
    /\ deleteConfirm = << >>
    /\ docCalls = { GetDocuments }
    /\ docAlerts = << >>
    /\ docUpdates = 0
    /\ serverDocs \in ServerAnswers
    /\ docFailed = << >>
    /\ AuthIdle
    /\ UploadEmpty
    /\ ConfigDone
    /\ ScraperEmpty

docFrame == << chatViewVars, authVars, uploadVars, configVars, scrapeVars >>

\* loadDocuments after the await, success
LoadResolve ==
    /\ GetDocuments \in docCalls
    /\ docCalls' = docCalls \ { GetDocuments }
    /\ documents' = serverDocs
    /\ docIsLoading' = FALSE
    /\ UNCHANGED << deleteConfirm, docAlerts, docUpdates, serverDocs, docFailed,
                    docFrame >>

\* loadDocuments, catch and finally
LoadReject ==
    /\ GetDocuments \in docCalls
    /\ docCalls' = docCalls \ { GetDocuments }
    /\ documents' = mockDocs
    /\ docIsLoading' = FALSE
    /\ docFailed' = Append(docFailed, GetDocuments)
    /\ UNCHANGED << deleteConfirm, docAlerts, docUpdates, serverDocs, docFrame >>

\* the trash button of a row: setDeleteConfirm(doc.id)
AskDelete ==
    /\ ~docIsLoading
    /\ \E docId \in DocIds(documents) :
        /\ deleteConfirm # << docId >>
        /\ deleteConfirm' = << docId >>
    /\ UNCHANGED << documents, docIsLoading, docCalls, docAlerts, docUpdates,
                    serverDocs, docFailed, docFrame >>

\* the Cancel button of the dialog: setDeleteConfirm(null)
CancelDelete ==
    /\ deleteConfirm # << >>
    /\ deleteConfirm' = << >>
    /\ UNCHANGED << documents, docIsLoading, docCalls, docAlerts, docUpdates,
                    serverDocs, docFailed, docFrame >>

\* the Delete button of the dialog: deleteDocument(deleteConfirm) up to its await
ConfirmDelete ==
    /\ deleteConfirm # << >>
    /\ DeleteCall(deleteConfirm[1]) \notin docCalls
    /\ Len(docFailed) < MaxAlerts
    /\ docCalls' = docCalls \cup { DeleteCall(deleteConfirm[1]) }
    /\ UNCHANGED << documents, docIsLoading, deleteConfirm, docAlerts, docUpdates,
                    serverDocs, docFailed, docFrame >>

\* deleteDocument after the await, success
DeleteResolve ==
    \E call \in docCalls :
        /\ call.op = "deleteDocument"
        /\ docCalls' = docCalls \ { call }
        /\ documents' = WithoutDoc(documents, call.id)
        /\ docUpdates' = docUpdates + 1
        /\ deleteConfirm' = << >>
        /\ UNCHANGED << docIsLoading, docAlerts, serverDocs, docFailed, docFrame >>

\* deleteDocument, catch
DeleteReject ==
    \E call \in docCalls :
        /\ call.op = "deleteDocument"
        /\ docCalls' = docCalls \ { call }
        /\ docAlerts' = Append(docAlerts, DeleteFailedAlert)
        /\ docFailed' = Append(docFailed, call)
        /\ deleteConfirm' = << >>
        /\ UNCHANGED << documents, docIsLoading, docUpdates, serverDocs, docFrame >>

DocNext ==
    \/ LoadResolve
    \/ LoadReject
    \/ AskDelete
    \/ CancelDelete
    \/ ConfirmDelete
    \/ DeleteResolve
    \/ DeleteReject

DocSpec == InitDoc /\ [][DocNext]_vars

\* ------------------------------------- AuthProvider, routes, axios, socket
MaxRequests == 1

Unauthorized == 401

\* the statuses a response can carry: success, auth error, another error
Statuses == { 200, Unauthorized, 500 }

Tokens == { "t1", "t2" }

Users == { [ id |-> 1, name |-> "ann" ], [ id |-> 2, name |-> "bob" ] }

StorageKeys == { "access_token", "user", "token" }

getItem(st, key) == st[key]

setItem(st, key, value) == [ st EXCEPT ![key] = << value >> ]

removeItem(st, key) == [ st EXCEPT ![key] = << >> ]

\* a string read from localStorage used as a condition: null and "" are falsy
TruthyStr(o) == o # << >> /\ o[1] # ""

\* JSON.stringify(response.user)
Stringify(u) == "{\"id\":" \o ToString(u.id) \o ",\"name\":\"" \o u.name \o "\"}"

\* JSON.parse(userStr): ok is FALSE when it throws; JSON null parses to null
Parse(str) ==
    IF \E u \in Users : Stringify(u) = str
    THEN [ ok |-> TRUE, value |-> << CHOOSE u \in Users : Stringify(u) = str >> ]
    ELSE IF str = "null" THEN [ ok |-> TRUE, value |-> << >> ]
    ELSE [ ok |-> FALSE, value |-> << >> ]

\* what the user entry of localStorage may hold when a page loads
UserEntries == { Stringify(u) : u \in Users } \cup { "null", "{\"id\":1,\"na" }

StorageStates ==
    { [ k \in StorageKeys |->
          IF k = "access_token" THEN t ELSE IF k = "user" THEN u ELSE << >> ] :
        t \in { << >> } \cup { << x >> : x \in Tokens },
        u \in { << >> } \cup { << x >> : x \in UserEntries } }

initialState ==
    [ user |-> << >>, token |-> << >>, isAuthenticated |-> FALSE,
      isLoading |-> FALSE, error |-> << >> ]

\* variant: AUTH_LOGOUT keeps the user and the token
authReducer_LogoutKeeps(state, action) ==
    CASE action.type = "AUTH_START" ->
            [ state EXCEPT !.isLoading = TRUE, !.error = << >> ]
      [] action.type = "AUTH_SUCCESS" ->
            [ state EXCEPT !.isLoading = FALSE, !.isAuthenticated = TRUE,
                           !.user = action.user, !.token = << action.access_token >>,
                           !.error = << >> ]
      [] action.type = "AUTH_ERROR" ->
            [ state EXCEPT !.isLoading = FALSE, !.isAuthenticated = FALSE,
                           !.user = << >>, !.token = << >>,
                           !.error = << action.payload >> ]
      [] action.type = "AUTH_LOGOUT" ->
            [ state EXCEPT !.isAuthenticated = FALSE, !.error = << >> ]
      [] action.type = "CLEAR_ERROR" -> [ state EXCEPT !.error = << >> ]
      [] OTHER -> state

authReducer(state, action) ==
    CASE action.type = "AUTH_START" ->
            [ state EXCEPT !.isLoading = TRUE, !.error = << >> ]
      [] action.type = "AUTH_SUCCESS" ->
            [ state EXCEPT !.isLoading = FALSE, !.isAuthenticated = TRUE,
                           !.user = action.user, !.token = << action.access_token >>,
                           !.error = << >> ]
      [] action.type = "AUTH_ERROR" ->
            [ state EXCEPT !.isLoading = FALSE, !.isAuthenticated = FALSE,
                           !.user = << >>, !.token = << >>,
                           !.error = << action.payload >> ]
      [] action.type = "AUTH_LOGOUT" ->
            [ state EXCEPT !.isAuthenticated = FALSE, !.user = << >>,
                           !.token = << >>, !.error = << >> ]
      [] action.type = "CLEAR_ERROR" -> [ state EXCEPT !.error = << >> ]
      [] OTHER -> state

AuthSuccess(t, u) == [ type |-> "AUTH_SUCCESS", access_token |-> t, user |-> u ]

\* variant of the mount effect: the token of the entry is dropped
AuthAfterLoad_NoToken(st) ==
    IF TruthyStr(getItem(st, "access_token")) /\ TruthyStr(getItem(st, "user"))
       /\ Parse(getItem(st, "user")[1]).ok
    THEN [ authReducer(initialState,
              AuthSuccess(getItem(st, "access_token")[1],
                          Parse(getItem(st, "user")[1]).value))
           EXCEPT !.token = << >> ]
    ELSE initialState

\* AuthProvider mount effect: the auth state it leaves
AuthAfterLoad(st) ==
    IF TruthyStr(getItem(st, "access_token")) /\ TruthyStr(getItem(st, "user"))
       /\ Parse(getItem(st, "user")[1]).ok
    THEN authReducer(initialState,
            AuthSuccess(getItem(st, "access_token")[1],
                        Parse(getItem(st, "user")[1]).value))
    ELSE initialState

\* AuthProvider mount effect: the localStorage it leaves
StorageAfterLoad(st) ==
    IF TruthyStr(getItem(st, "access_token")) /\ TruthyStr(getItem(st, "user"))
       /\ ~Parse(getItem(st, "user")[1]).ok
    THEN removeItem(removeItem(st, "access_token"), "user")
    ELSE st

Page(name) == [ kind |-> "page", name |-> name, to |-> "" ]

\* <Navigate to=... replace />
Navigate(to) == [ kind |-> "navigate", name |-> "", to |-> to ]

\* variant: the guard renders its children whenever the state is not loading
ProtectedRoute_NoCheck(a, children) ==
    IF a.isLoading THEN Page("Spinner") ELSE Page(children)

ProtectedRoute(a, children) ==
    IF a.isLoading THEN Page("Spinner")
    ELSE IF a.isAuthenticated THEN Page(children) ELSE Navigate("/login")

PublicRoute(a, children) ==
    IF a.isAuthenticated THEN Navigate("/chat") ELSE Page(children)

ProtectedPaths == { "/chat", "/content-management" }

PublicPaths == { "/login", "/signup" }

\* the addresses a page can be loaded at
Urls == ProtectedPaths \cup PublicPaths \cup { "/", "/other" }

\* <Routes>: the element the router renders at a path
RouteElement(path, a) ==
    CASE path = "/login" -> PublicRoute(a, "Login")
      [] path = "/signup" -> PublicRoute(a, "Signup")
      [] path = "/chat" -> ProtectedRoute(a, "ChatInterface")
      [] path = "/content-management" -> ProtectedRoute(a, "ContentManagementPage")
      [] OTHER -> Navigate("/chat")

\* the path the router rests at once every <Navigate> has been followed
RECURSIVE Settle(_, _)
Settle(path, a) ==
    IF RouteElement(path, a).kind = "navigate"
    THEN Settle(RouteElement(path, a).to, a)
    ELSE path

\* the page on screen
View(path, a) == RouteElement(path, a).name

\* request interceptor: the Authorization header, <<>> when none is set
requestInterceptor(st) ==
    IF TruthyStr(getItem(st, "access_token"))
    THEN << "Bearer " \o getItem(st, "access_token")[1] >>
    ELSE << >>

\* variant: the interceptor clears the storage on every error status
storageAfterResponse_AnyError(st, status) ==
    IF status # 200
    THEN removeItem(removeItem(st, "access_token"), "user")
    ELSE st

\* response interceptor, error branch: localStorage
storageAfterResponse(st, status) ==
    IF status = Unauthorized
    THEN removeItem(removeItem(st, "access_token"), "user")
    ELSE st

\* response interceptor, error branch: window.location.href
hrefAfterResponse(cur, status) ==
    IF status = Unauthorized THEN << "/login" >> ELSE cur

\* authAPI.logout
authAPIlogout(st) == removeItem(removeItem(st, "access_token"), "user")

NoSocket == [ state |-> "none", auth |-> << >> ]

\* connectSocket(authToken): authToken is <<>> when undefined
connectSocket(cur, authToken) ==
    IF cur.state = "connected" THEN cur
    ELSE [ state |-> "connecting",
           auth |-> IF TruthyStr(authToken) THEN authToken ELSE << >> ]

\* ChatInterface mount effect: connectSocket(localStorage.getItem('token') || undefined)
SocketAfterMount(cur, st) == connectSocket(cur, getItem(st, "token"))

\* the router follows its redirects and ChatInterface, when it comes on
\* screen, runs its mount effect; wasChat: the chat view was already mounted
Rerender(path, wasChat, sock) ==
    /\ location' = Settle(path, auth')
    /\ IF View(location', auth') = "ChatInterface" /\ ~wasChat
       THEN /\ socket' = SocketAfterMount(sock, storage')
            /\ socketFor' = IF sock.state = "connected" THEN socketFor
                            ELSE getItem(storage', "access_token")
       ELSE /\ socket' = sock
            /\ socketFor' = IF sock = NoSocket THEN << >> ELSE socketFor

ChatOnScreen == View(location, auth) = "ChatInterface"

authFrame ==
    << chatViewVars, docVars, uploadVars, configVars, scrapeVars, dispatched >>

\* a page load at url: the module state is new, AuthProvider starts from
\* initialState and the first render follows its redirects
FirstRender(url) ==
    /\ auth' = initialState
    /\ location' = Settle(url, initialState)
    /\ socket' = NoSocket
    /\ socketFor' = << >>
    /\ booting' = TRUE
    /\ href' = << >>
    /\ requests' = << >>
    /\ lastOp' = "other"
    /\ lastResponse' = << >>
    /\ storage' = storage
    /\ opened' = url

\* the application has been opened at some address, with whatever an earlier
\* visit left in localStorage, and has rendered once
InitAuth ==
    /\ InitChat
    /\ currentSession = NoSession
    /\ SessionsLoaded
    /\ evtType = EventNames[1]
    /\ evtPayload = EmptyPayload
    /\ DocUnmounted
    /\ UploadEmpty
    /\ ConfigDone
    /\ ScraperEmpty
    /\ storage \in StorageStates
    /\ auth = initialState
    /\ opened \in Urls
    /\ location = Settle(opened, initialState)
    /\ dispatched = << >>
    /\ socket = NoSocket
    /\ socketFor = << >>
    /\ booting = TRUE
    /\ href = << >>
    /\ requests = << >>
    /\ lastOp = "other"
    /\ lastResponse = << >>

\* AuthProvider mount effect, and the render it causes
MountEffect ==
    /\ booting
    /\ booting' = FALSE
    /\ storage' = StorageAfterLoad(storage)
    /\ auth' = AuthAfterLoad(storage)
    /\ Rerender(location, FALSE, socket)
    /\ lastOp' = "load"
    /\ lastResponse' = << >>
    /\ UNCHANGED << href, requests, opened, authFrame >>

Request(op, st) == [ op |-> op, header |-> requestInterceptor(st) ]

\* seq without its i-th element
RemoveAt(seq, i) == SubSeq(seq, 1, i - 1) \o SubSeq(seq, i + 1, Len(seq))

Response(req, status, outcome) ==
    << [ op |-> req.op, status |-> status, outcome |-> outcome ] >>

\* the user reloads the page or opens the application at an address
Reload ==
    /\ \E url \in Urls : FirstRender(url)
    /\ UNCHANGED authFrame

\* the browser follows window.location.href
FollowHref ==
    /\ href # << >>
    /\ FirstRender(href[1])
    /\ UNCHANGED authFrame

\* a <Link>, or the back and forward buttons
Go ==
    /\ ~booting
    /\ \E path \in ProtectedPaths \cup PublicPaths :
        /\ path # location
        /\ auth' = auth
        /\ storage' = storage
        /\ Rerender(path, ChatOnScreen, socket)
    /\ lastOp' = "other"
    /\ lastResponse' = << >>
    /\ UNCHANGED << href, requests, booting, opened, authFrame >>

\* login(data) / signup(data) up to the await
AuthStart ==
    /\ ~booting
    /\ Len(requests) < MaxRequests
    /\ \E op \in { "login", "signup" } :
        /\ View(location, auth) = (IF op = "login" THEN "Login" ELSE "Signup")
        /\ requests' = Append(requests, Request(op, storage))
    /\ auth' = authReducer(auth, [ type |-> "AUTH_START" ])
    /\ storage' = storage
    /\ Rerender(location, ChatOnScreen, socket)
    /\ lastOp' = "other"
    /\ lastResponse' = << >>
    /\ UNCHANGED << href, booting, opened, authFrame >>

\* login / signup after the await, success
AuthResolve ==
    /\ \E i \in 1..Len(requests), t \in Tokens, u \in Users :
        /\ requests[i].op \in { "login", "signup" }
        /\ requests' = RemoveAt(requests, i)
        /\ storage' = setItem(setItem(storage, "access_token", t), "user", Stringify(u))
        /\ auth' = authReducer(auth, AuthSuccess(t, << u >>))
        /\ lastResponse' = Response(requests[i], 200, "resolved")
    /\ Rerender(location, ChatOnScreen, socket)
    /\ lastOp' = "response"
    /\ UNCHANGED << href, booting, opened, authFrame >>

\* login / signup: the response interceptor rejects, then catch
AuthReject ==
    /\ \E i \in 1..Len(requests), status \in Statuses \ { 200 } :
        /\ requests[i].op \in { "login", "signup" }
        /\ requests' = RemoveAt(requests, i)
        /\ storage' = storageAfterResponse(storage, status)
        /\ href' = hrefAfterResponse(href, status)
        /\ auth' = authReducer(auth,
                      [ type |-> "AUTH_ERROR",
                        payload |-> IF requests[i].op = "login"
                                    THEN "Login failed" ELSE "Signup failed" ])
        /\ lastResponse' = Response(requests[i], status, "rejected")
    /\ Rerender(location, ChatOnScreen, socket)
    /\ lastOp' = "response"
    /\ UNCHANGED << booting, opened, authFrame >>

\* a protected page calls chatAPI or contentAPI
ApiRequest ==
    /\ ~booting
    /\ Len(requests) < MaxRequests
    /\ View(location, auth) \in { "ChatInterface", "ContentManagementPage" }
    /\ requests' = Append(requests, Request("api", storage))
    /\ lastOp' = "other"
    /\ lastResponse' = << >>
    /\ UNCHANGED << storage, auth, location, href, socket, socketFor, booting,
                    opened, authFrame >>

\* its response, success: the interceptor hands it on
ApiResolve ==
    /\ \E i \in 1..Len(requests) :
        /\ requests[i].op = "api"
        /\ requests' = RemoveAt(requests, i)
        /\ lastResponse' = Response(requests[i], 200, "resolved")
    /\ lastOp' = "response"
    /\ UNCHANGED << storage, auth, location, href, socket, socketFor, booting,
                    opened, authFrame >>

\* its response, an error status: the response interceptor
ApiReject ==
    /\ \E i \in 1..Len(requests), status \in Statuses \ { 200 } :
        /\ requests[i].op = "api"
        /\ requests' = RemoveAt(requests, i)
        /\ storage' = storageAfterResponse(storage, status)
        /\ href' = hrefAfterResponse(href, status)
        /\ lastResponse' = Response(requests[i], status, "rejected")
    /\ lastOp' = "response"
    /\ UNCHANGED << auth, location, socket, socketFor, booting, opened, authFrame >>

\* logout(): exposed by the context to every component
Logout ==
    /\ ~booting
    /\ storage' = authAPIlogout(storage)
    /\ auth' = authReducer(auth, [ type |-> "AUTH_LOGOUT" ])
    /\ Rerender(location, ChatOnScreen, socket)
    /\ lastOp' = "logout"
    /\ lastResponse' = << >>
    /\ UNCHANGED << href, requests, booting, opened, authFrame >>

\* clearError()
ClearError ==
    /\ ~booting
    /\ auth.error # << >>
    /\ auth' = authReducer(auth, [ type |-> "CLEAR_ERROR" ])
    /\ storage' = storage
    /\ Rerender(location, ChatOnScreen, socket)
    /\ lastOp' = "other"
    /\ lastResponse' = << >>
    /\ UNCHANGED << href, requests, booting, opened, authFrame >>

\* the socket's connection is established
SocketConnected ==
    /\ socket.state = "connecting"
    /\ socket' = [ socket EXCEPT !.state = "connected" ]
    /\ lastOp' = "other"
    /\ lastResponse' = << >>
    /\ UNCHANGED << storage, auth, location, href, requests, socketFor, booting,
                    opened, authFrame >>

AuthNext ==
    \/ MountEffect
    \/ Reload
    \/ FollowHref
    \/ Go
    \/ AuthStart
    \/ AuthResolve
    \/ AuthReject
    \/ ApiRequest
    \/ ApiResolve
    \/ ApiReject
    \/ Logout
    \/ ClearError
    \/ SocketConnected

AuthSpec == InitAuth /\ [][AuthNext]_vars

\* -------------------------------------------------------------- FileUpload
MaxFiles == 2

MaxRuns == 2

\* what a rejection of uploadFile may carry as error.message
ErrorMessages == { << >>, << "Network Error" >> }

UploadFailedText == "Upload failed"

NewFile(id) == [ id |-> id, status |-> "pending", error |-> << >> ]

\* files.filter(f => f.status === 'pending'), as ids
RECURSIVE PendingIds(_)
PendingIds(fs) ==
    IF fs = << >> THEN << >>
    ELSE IF Head(fs).status = "pending" THEN << Head(fs).id >> \o PendingIds(Tail(fs))
    ELSE PendingIds(Tail(fs))

\* prev.filter(f => f.id !== id)
RECURSIVE WithoutFile(_, _)
WithoutFile(fs, id) ==
    IF fs = << >> THEN << >>
    ELSE IF Head(fs).id = id THEN WithoutFile(Tail(fs), id)
    ELSE << Head(fs) >> \o WithoutFile(Tail(fs), id)

\* prev.map(f => f.id === id ? { ...f, status } : f)
WithStatus(fs, id, status) ==
    [ j \in 1..Len(fs) |->
        IF fs[j].id = id THEN [ fs[j] EXCEPT !.status = status ] ELSE fs[j] ]

\* prev.map(f => f.id === id ? { ...f, status: 'error', error: message || 'Upload failed' } : f)
WithError(fs, id, message) ==
    [ j \in 1..Len(fs) |->
        IF fs[j].id = id
        THEN [ fs[j] EXCEPT !.status = "error",
                            !.error = IF TruthyStr(message) THEN message
                                      ELSE << UploadFailedText >> ]
        ELSE fs[j] ]

\* variant: the catch block leaves the loop
AfterError_Break(run) == Len(run.queue) + 1

\* the position of the loop after the catch block: the next file
AfterError(run) == run.i + 1

\* the loop of uploadFiles arrives at position k of its queue: past the end it
\* calls onUploadComplete; otherwise it marks the file and calls uploadFile
RunAt(run, k) ==
    IF k > Len(run.queue)
    THEN [ run EXCEPT !.i = k, !.pc = "done", !.completes = run.completes + 1 ]
    ELSE [ run EXCEPT !.i = k, !.pc = "upload",
                      !.attempted = Append(run.attempted, run.queue[k]) ]

FilesAt(fs, run, k) ==
    IF k > Len(run.queue) THEN fs ELSE WithStatus(fs, run.queue[k], "uploading")

RequestsAt(reqs, r, run, k) ==
    IF k > Len(run.queue) THEN reqs
    ELSE reqs \cup { [ run |-> r, file |-> run.queue[k] ] }

NewRun(queue) ==
    [ queue |-> queue, i |-> 0, pc |-> "start", attempted |-> << >>,
      failed |-> << >>, completes |-> 0 ]

InitUpload ==
    /\ InitChat
    /\ currentSession = NoSession
    /\ SessionsLoaded
    /\ evtType = EventNames[1]
    /\ evtPayload = EmptyPayload
    /\ DocUnmounted
    /\ AuthIdle
    /\ UploadEmpty
    /\ ConfigDone
    /\ ScraperEmpty

uploadFrame == << chatViewVars, docVars, authVars, configVars, scrapeVars >>

\* handleFileSelect(selectedFiles)
AddFiles ==
    /\ \E n \in 1..2 :
        /\ nextFileId + n - 1 <= MaxFiles
        /\ files' = files \o [ j \in 1..n |-> NewFile(nextFileId + j - 1) ]
        /\ nextFileId' = nextFileId + n
    /\ UNCHANGED << runs, uploadRequests, uploadFrame >>

\* removeFile(id)
RemoveFile ==
    /\ \E j \in 1..Len(files) : files' = WithoutFile(files, files[j].id)
    /\ UNCHANGED << nextFileId, runs, uploadRequests, uploadFrame >>

\* the Upload button, shown while pendingCount > 0: uploadFiles() up to the
\* first await
StartUpload ==
    /\ Len(runs) < MaxRuns
    /\ PendingIds(files) # << >>
    /\ LET r == Len(runs) + 1
           run == NewRun(PendingIds(files))
       IN  /\ runs' = Append(runs, RunAt(run, 1))
           /\ files' = FilesAt(files, run, 1)
           /\ uploadRequests' = RequestsAt(uploadRequests, r, run, 1)
    /\ UNCHANGED << nextFileId, uploadFrame >>

\* uploadFiles after await contentAPI.uploadFile, success: the delay before
\* the next file, or the end of the loop
UploadResolve ==
    /\ \E r \in 1..Len(runs) :
        /\ runs[r].pc = "upload"
        /\ LET run == runs[r]
               id == run.queue[run.i]
               marked == WithStatus(files, id, "success")
           IN  IF run.i < Len(run.queue)
               THEN /\ runs' = [ runs EXCEPT ![r].pc = "delay" ]
                    /\ files' = marked
                    /\ uploadRequests' = uploadRequests \ { [ run |-> r, file |-> id ] }
               ELSE /\ runs' = [ runs EXCEPT ![r] = RunAt(run, run.i + 1) ]
                    /\ files' = marked
                    /\ uploadRequests' = uploadRequests \ { [ run |-> r, file |-> id ] }
    /\ UNCHANGED << nextFileId, uploadFrame >>

\* the delay between two uploads is over: the next iteration
DelayDone ==
    /\ \E r \in 1..Len(runs) :
        /\ runs[r].pc = "delay"
        /\ runs' = [ runs EXCEPT ![r] = RunAt(runs[r], runs[r].i + 1) ]
        /\ files' = FilesAt(files, runs[r], runs[r].i + 1)
        /\ uploadRequests' = RequestsAt(uploadRequests, r, runs[r], runs[r].i + 1)
    /\ UNCHANGED << nextFileId, uploadFrame >>

\* uploadFiles, catch: the file is marked and the loop goes on at once
UploadReject ==
    /\ \E r \in 1..Len(runs), message \in ErrorMessages :
        /\ runs[r].pc = "upload"
        /\ LET id == runs[r].queue[runs[r].i]
               run == [ runs[r] EXCEPT !.failed = Append(runs[r].failed, id) ]
               k == AfterError(runs[r])
           IN  /\ runs' = [ runs EXCEPT ![r] = RunAt(run, k) ]
               /\ files' = FilesAt(WithError(files, id, message), run, k)
               /\ uploadRequests' =
                    RequestsAt(uploadRequests \ { [ run |-> r, file |-> id ] }, r, run, k)
    /\ UNCHANGED << nextFileId, uploadFrame >>

UploadNext ==
    \/ AddFiles
    \/ RemoveFile
    \/ StartUpload
    \/ UploadResolve
    \/ DelayDone
    \/ UploadReject

UploadSpec == InitUpload /\ [][UploadNext]_vars

\* ------------------------------------------------------------------ config
EnvVars ==
    { "REACT_APP_API_BASE_URL", "REACT_APP_API_TIMEOUT", "REACT_APP_SOCKET_URL",
      "REACT_APP_SOCKET_PATH" }

requiredEnvVars == << "REACT_APP_API_BASE_URL", "REACT_APP_SOCKET_URL" >>

\* what a build may have put in a variable: nothing, the empty string, a value
EnvValues(v) ==
    { << >>, << "" >>,
      << IF v = "REACT_APP_API_TIMEOUT" THEN "5000"
         ELSE IF v = "REACT_APP_SOCKET_PATH" THEN "/socket"
         ELSE "https://api.example.com" >> }

NodeEnvs == { "development", "production", "test" }

\* getDefaultValue(varName)
getDefaultValue(v) ==
    CASE v = "REACT_APP_API_BASE_URL" -> << "http://localhost:3000/api" >>
      [] v = "REACT_APP_SOCKET_URL" -> << "http://localhost:3000" >>
      [] v = "REACT_APP_SOCKET_PATH" -> << "/ws" >>
      [] v = "REACT_APP_API_TIMEOUT" -> << "30000" >>
      [] OTHER -> << >>

\* process.env.X || fallback
OrElse(o, fallback) == IF TruthyStr(o) THEN o[1] ELSE fallback

\* parseInt(text, 10) on the texts a timeout can be
parseInt(text) ==
    CASE text = "30000" -> 30000
      [] text = "5000" -> 5000

\* the config object, evaluated when the module is loaded
ConfigOf(e, mode) ==
    [ API_BASE_URL |-> OrElse(e["REACT_APP_API_BASE_URL"], "http://localhost:3000/api"),
      API_TIMEOUT |-> parseInt(OrElse(e["REACT_APP_API_TIMEOUT"], "30000")),
      SOCKET_URL |-> OrElse(e["REACT_APP_SOCKET_URL"], "http://localhost:3000"),
      SOCKET_PATH |-> OrElse(e["REACT_APP_SOCKET_PATH"], "/ws"),
      isDevelopment |-> (mode = "development"),
      isProduction |-> (mode = "production") ]

\* requiredEnvVars.filter(varName => !process.env[varName] && !getDefaultValue(varName))
RECURSIVE missingVars(_, _)
missingVars(names, e) ==
    IF names = << >> THEN << >>
    ELSE IF ~TruthyStr(e[Head(names)]) /\ ~TruthyStr(getDefaultValue(Head(names)))
         THEN << Head(names) >> \o missingVars(Tail(names), e)
         ELSE missingVars(Tail(names), e)

\* names.join(', ')
RECURSIVE Join(_)
Join(names) ==
    IF names = << >> THEN ""
    ELSE IF Len(names) = 1 THEN Head(names)
    ELSE Head(names) \o ", " \o Join(Tail(names))

WarningText(names) ==
    "Warning: Missing environment variables: " \o Join(names) \o ". Using default values."

\* the application module has been loaded: config is evaluated, validateConfig
\* is about to be called
InitConfig ==
    /\ InitChat
    /\ currentSession = NoSession
    /\ SessionsLoaded
    /\ evtType = EventNames[1]
    /\ evtPayload = EmptyPayload
    /\ DocUnmounted
    /\ AuthIdle
    /\ UploadEmpty
    /\ ScraperEmpty
    /\ env \in { e \in [ EnvVars -> UNION { EnvValues(v) : v \in EnvVars } ] :
                   \A v \in EnvVars : e[v] \in EnvValues(v) }
    /\ nodeEnv \in NodeEnvs
    /\ config = ConfigOf(env, nodeEnv)
    /\ warnings = << >>
    /\ configLogs = 0
    /\ validated = FALSE

\* validateConfig()
validateConfig ==
    /\ ~validated
    /\ validated' = TRUE
    /\ warnings' = IF Len(missingVars(requiredEnvVars, env)) > 0
                   THEN Append(warnings, WarningText(missingVars(requiredEnvVars, env)))
                   ELSE warnings
    /\ configLogs' = IF config.isDevelopment THEN configLogs + 1 ELSE configLogs
    /\ UNCHANGED << env, nodeEnv, config, chatViewVars, docVars, authVars, uploadVars,
                    scrapeVars >>

ConfigNext == validateConfig

ConfigSpec == InitConfig /\ [][ConfigNext]_vars

\* -------------------------------------------------------------- URLScraper
MaxJobs == 1

MaxLinks == 2

MaxBatches == 1

NewJob(id) == [ id |-> id, status |-> "pending", result |-> << >>, error |-> << >> ]

\* prev.map(u => u.id === id ? { ...u, status } : u)
JobWithStatus(js, id, status) ==
    [ j \in 1..Len(js) |->
        IF js[j].id = id THEN [ js[j] EXCEPT !.status = status ] ELSE js[j] ]

\* prev.map(u => u.id === id ? { ...u, status: 'success', result } : u)
JobWithResult(js, id, message) ==
    [ j \in 1..Len(js) |->
        IF js[j].id = id
        THEN [ js[j] EXCEPT !.status = "success", !.result = << message >> ]
        ELSE js[j] ]

\* prev.map(u => u.id === id ? { ...u, status: 'error', error: message || 'Scraping failed' } : u)
JobWithError(js, id, message) ==
    [ j \in 1..Len(js) |->
        IF js[j].id = id
        THEN [ js[j] EXCEPT !.status = "error",
                            !.error = IF TruthyStr(message) THEN message
                                      ELSE << "Scraping failed" >> ]
        ELSE js[j] ]

\* prev.filter(u => u.id !== id)
RECURSIVE WithoutJob(_, _)
WithoutJob(js, id) ==
    IF js = << >> THEN << >>
    ELSE IF Head(js).id = id THEN WithoutJob(Tail(js), id)
    ELSE << Head(js) >> \o WithoutJob(Tail(js), id)

\* urls.find(u => u.status === 'pending'): <<>> when there is none
RECURSIVE FindPending(_)
FindPending(js) ==
    IF js = << >> THEN << >>
    ELSE IF Head(js).status = "pending" THEN << Head(js) >>
    ELSE FindPending(Tail(js))

\* previewData.links.filter(l => l.selected) when m checkboxes are ticked:
\* the selected links, named by their position in the filtered array
SelectedLinks(m) == [ j \in 1..m |-> j ]

\* `Processed ${successCount} URLs, ${failCount} failed`
ResultMessage(successCount, failCount) ==
    "Processed " \o ToString(successCount) \o " URLs, " \o ToString(failCount) \o " failed"

\* variant: the catch block of the loop counts nothing and leaves the loop
countFailure_Break(b) ==
    [ b EXCEPT !.outcomes = Append(b.outcomes, "failed"), !.i = Len(b.links) + 1 ]

\* processSelectedUrls, inner catch: failCount++, then the next link
countFailure(b) ==
    [ b EXCEPT !.failCount = b.failCount + 1,
               !.outcomes = Append(b.outcomes, "failed"), !.i = b.i + 1 ]

\* processSelectedUrls after the await: successCount++, then the next link
countSuccess(b) ==
    [ b EXCEPT !.successCount = b.successCount + 1,
               !.outcomes = Append(b.outcomes, "ingested"), !.i = b.i + 1 ]

\* the loop at position b.i: past the end the result is built, otherwise
\* contentAPI.ingestFromUrl is called for the link
BatchAt(b) ==
    IF b.i > Len(b.links)
    THEN [ b EXCEPT !.pc = "done",
                    !.message = << ResultMessage(b.successCount, b.failCount) >> ]
    ELSE [ b EXCEPT !.pc = "ingest", !.ingested = Append(b.ingested, b.links[b.i]) ]

\* the end of processSelectedUrls: currentJob, the first job that was pending
\* in the urls of the render whose dialog was confirmed, gets the result
JobsAfterBatch(js, b) ==
    IF b.pc = "done" /\ b.currentJob # << >>
    THEN JobWithResult(js, b.currentJob[1], b.message[1])
    ELSE js

InitScrape ==
    /\ InitChat
    /\ currentSession = NoSession
    /\ SessionsLoaded
    /\ evtType = EventNames[1]
    /\ evtPayload = EmptyPayload
    /\ DocUnmounted
    /\ AuthIdle
    /\ UploadEmpty
    /\ ConfigDone
    /\ ScraperEmpty

scrapeFrame == << chatViewVars, docVars, authVars, uploadVars, configVars >>

\* addUrl()
AddUrl ==
    /\ nextJobId <= MaxJobs
    /\ urls' = Append(urls, NewJob(nextJobId))
    /\ nextJobId' = nextJobId + 1
    /\ UNCHANGED << previewData, previews, batches, scrapeCompletes, scrapeFrame >>

\* removeUrl(id): the button is disabled while the job is 'scraping'
RemoveUrl ==
    /\ \E j \in 1..Len(urls) :
        /\ urls[j].status # "scraping"
        /\ urls' = WithoutJob(urls, urls[j].id)
    /\ UNCHANGED << nextJobId, previewData, previews, batches, scrapeCompletes,
                    scrapeFrame >>

\* the Scrape button of a pending job: scrapeUrl(job) up to await previewUrl
ScrapeStart ==
    /\ \E j \in 1..Len(urls) :
        /\ urls[j].status = "pending"
        /\ urls' = JobWithStatus(urls, urls[j].id, "scraping")
        /\ previews' = previews \cup { urls[j].id }
    /\ UNCHANGED << nextJobId, previewData, batches, scrapeCompletes, scrapeFrame >>

\* scrapeUrl after await previewUrl: the preview opens with the links of the
\* page and the job is pending again
PreviewResolve ==
    /\ \E id \in previews, n \in 1..MaxLinks :
        /\ previews' = previews \ { id }
        /\ previewData' = << [ url |-> id, links |-> n ] >>
        /\ urls' = JobWithStatus(urls, id, "pending")
    /\ UNCHANGED << nextJobId, batches, scrapeCompletes, scrapeFrame >>

\* scrapeUrl, catch
PreviewReject ==
    /\ \E id \in previews, message \in { << "Network Error" >> } :
        /\ previews' = previews \ { id }
        /\ urls' = JobWithError(urls, id, message)
    /\ UNCHANGED << nextJobId, previewData, batches, scrapeCompletes, scrapeFrame >>

\* the Cancel button of the preview
CancelPreview ==
    /\ previewData # << >>
    /\ previewData' = << >>
    /\ UNCHANGED << urls, nextJobId, previews, batches, scrapeCompletes, scrapeFrame >>

\* the user has ticked some links and presses Process Selected, enabled
\* while a link is ticked: processSelectedUrls(selected) up to its first
\* await, then the preview is closed
ProcessSelected ==
    /\ previewData # << >>
    /\ Len(batches) < MaxBatches
    /\ \E m \in 1..previewData[1].links :
        batches' = Append(batches,
          BatchAt([ links |-> SelectedLinks(m), i |-> 1,
                    pc |-> "start", successCount |-> 0, failCount |-> 0,
                    ingested |-> << >>, outcomes |-> << >>, message |-> << >>,
                    currentJob |-> IF FindPending(urls) = << >> THEN << >>
                                   ELSE << FindPending(urls)[1].id >> ]))
    /\ previewData' = << >>
    /\ UNCHANGED << urls, nextJobId, previews, scrapeCompletes, scrapeFrame >>

\* processSelectedUrls after await ingestFromUrl, success
IngestResolve ==
    /\ \E k \in 1..Len(batches) :
        /\ batches[k].pc = "ingest"
        /\ batches' = [ batches EXCEPT ![k] = BatchAt(countSuccess(batches[k])) ]
        /\ urls' = JobsAfterBatch(urls, batches'[k])
        /\ scrapeCompletes' =
              IF batches'[k].pc = "done" THEN scrapeCompletes + 1 ELSE scrapeCompletes
    /\ UNCHANGED << nextJobId, previewData, previews, scrapeFrame >>

\* processSelectedUrls, inner catch
IngestReject ==
    /\ \E k \in 1..Len(batches) :
        /\ batches[k].pc = "ingest"
        /\ batches' = [ batches EXCEPT ![k] = BatchAt(countFailure(batches[k])) ]
        /\ urls' = JobsAfterBatch(urls, batches'[k])
        /\ scrapeCompletes' =
              IF batches'[k].pc = "done" THEN scrapeCompletes + 1 ELSE scrapeCompletes
    /\ UNCHANGED << nextJobId, previewData, previews, scrapeFrame >>

ScrapeNext ==
    \/ AddUrl
    \/ RemoveUrl
    \/ ScrapeStart
    \/ PreviewResolve
    \/ PreviewReject
    \/ CancelPreview
    \/ ProcessSelected
    \/ IngestResolve
    \/ IngestReject

ScrapeSpec == InitScrape /\ [][ScrapeNext]_vars

\* ------------------------------------------- URLScraper, two jobs in the list
\* two addresses have been added, neither has been scraped yet
InitPreview ==
    /\ InitChat
    /\ currentSession = NoSession
    /\ SessionsLoaded
    /\ evtType = EventNames[1]
    /\ evtPayload = EmptyPayload
    /\ DocUnmounted
    /\ AuthIdle
    /\ UploadEmpty
    /\ ConfigDone
    /\ urls = << NewJob(1), NewJob(2) >>
    /\ nextJobId = 3
    /\ previewData = << >>
    /\ previews = { }
    /\ batches = << >>
    /\ scrapeCompletes = 0

PreviewNext ==
    \/ RemoveUrl
    \/ ScrapeStart
    \/ PreviewResolve
    \/ PreviewReject
    \/ CancelPreview
    \/ ProcessSelected
    \/ IngestResolve
    \/ IngestReject

PreviewSpec == InitPreview /\ [][PreviewNext]_vars

\* ------------------------------------------------- ChatInterface, sessions
\* session requests awaiting their response at the same time
MaxCalls == 2

\* sessions created while the page is open
MaxCreates == 1

\* what GET /chat/sessions answers when the user has sessions
ServerSessions == << 1, 2 >>

\* the messages the server holds for a session; their ids are the session's own
StoredMessages(id) ==
    << [ id |-> 10 * id, role |-> "assistant", content |-> << "a" >> ] >>

\* sessionData.messages of a GET /chat/sessions/:id response: absent or stored
SessionMessages(id) == { << >>, StoredMessages(id) }

\* a request, with the state its handler's closure reads after the await
SessionCall(op, id, current, rest) ==
    [ op |-> op, id |-> id, current |-> current, rest |-> rest ]

\* sessions.filter(s => s.id !== sessionId)
WithoutSession(list, id) == SelectSeq(list, LAMBDA s : s # id)

SessionIds(list) == { list[i] : i \in 1..Len(list) }

\* the id POST /chat/sessions gives the next session
NewSessionId == Len(ServerSessions) + created + 1

\* the chat view has rendered and its mount effect has called loadSessions
InitSession ==
    /\ InitChat
    /\ currentSession = NoSession
    /\ evtType = EventNames[1]
    /\ evtPayload = EmptyPayload
    /\ sessions = << >>
    /\ chatIsLoading = TRUE
    /\ sessionCalls = << SessionCall("getSessions", 0, NoSession, << >>) >>
    /\ created = 0
    /\ lastSelect = << >>
    /\ DocUnmounted
    /\ AuthIdle
    /\ UploadEmpty
    /\ ConfigDone
    /\ ScraperEmpty

sessionFrame ==
    << narratorVars, isSending, pending, question, listeners, mounted, dropped,
       handled, inputVars, formVars, docVars, authVars, uploadVars, configVars,
       scrapeVars >>

\* loadSession after the await: setCurrentSession, setMessages
loadSessionDone(i, msgs) ==
    /\ currentSession' = << [ id |-> sessionCalls[i].id ] >>
    /\ messages' = msgs

\* loadSessions after the await, success; the first session is loaded when the
\* closure saw no current session
GetSessionsResolve ==
    \E i \in 1..Len(sessionCalls), data \in { << >>, ServerSessions } :
        /\ sessionCalls[i].op = "getSessions"
        /\ sessions' = data
        /\ IF Len(data) > 0 /\ sessionCalls[i].current = NoSession
           THEN /\ sessionCalls' = Append(RemoveAt(sessionCalls, i),
                       SessionCall("getSession", data[1], NoSession, << >>))
                /\ chatIsLoading' = TRUE
           ELSE /\ sessionCalls' = RemoveAt(sessionCalls, i)
                /\ chatIsLoading' = FALSE
        /\ lastSelect' = << >>
        /\ UNCHANGED << messages, currentSession, error, created, sessionFrame >>

\* loadSessions, catch and finally
GetSessionsReject ==
    \E i \in 1..Len(sessionCalls) :
        /\ sessionCalls[i].op = "getSessions"
        /\ error' = << "Failed to load chat sessions" >>
        /\ chatIsLoading' = FALSE
        /\ sessionCalls' = RemoveAt(sessionCalls, i)
        /\ lastSelect' = << >>
        /\ UNCHANGED << messages, currentSession, sessions, created, sessionFrame >>

\* handleSessionSelect: loadSession(session.id), up to the await
SelectSession ==
    \E id \in SessionIds(sessions) :
        /\ mounted
        /\ Len(sessionCalls) < MaxCalls
        /\ chatIsLoading' = TRUE
        /\ sessionCalls' = Append(sessionCalls,
               SessionCall("getSession", id, NoSession, << >>))
        /\ lastSelect' = << id >>
        /\ UNCHANGED << messages, currentSession, error, sessions, created,
                        sessionFrame >>

\* loadSession after the await, success
GetSessionResolve ==
    \E i \in 1..Len(sessionCalls) :
        /\ sessionCalls[i].op = "getSession"
        /\ \E msgs \in SessionMessages(sessionCalls[i].id) : loadSessionDone(i, msgs)
        /\ chatIsLoading' = FALSE
        /\ sessionCalls' = RemoveAt(sessionCalls, i)
        /\ UNCHANGED << error, sessions, created, lastSelect, sessionFrame >>

\* loadSession, catch and finally
GetSessionReject ==
    \E i \in 1..Len(sessionCalls) :
        /\ sessionCalls[i].op = "getSession"
        /\ error' = << "Failed to load chat session" >>
        /\ chatIsLoading' = FALSE
        /\ sessionCalls' = RemoveAt(sessionCalls, i)
        /\ lastSelect' = << >>
        /\ UNCHANGED << messages, currentSession, sessions, created, sessionFrame >>

\* createNewSession, up to the await
CreateSession ==
    /\ mounted
    /\ Len(sessionCalls) < MaxCalls
    /\ created < MaxCreates
    /\ sessionCalls' = Append(sessionCalls,
           SessionCall("createSession", NewSessionId, NoSession, << >>))
    /\ created' = created + 1
    /\ lastSelect' = << >>
    /\ UNCHANGED << messages, currentSession, error, sessions, chatIsLoading,
                    sessionFrame >>

\* createNewSession after the await, success
CreateResolve ==
    \E i \in 1..Len(sessionCalls) :
        /\ sessionCalls[i].op = "createSession"
        /\ sessions' = << sessionCalls[i].id >> \o sessions
        /\ currentSession' = << [ id |-> sessionCalls[i].id ] >>
        /\ messages' = << >>
        /\ sessionCalls' = RemoveAt(sessionCalls, i)
        /\ lastSelect' = << >>
        /\ UNCHANGED << error, chatIsLoading, created, sessionFrame >>

\* createNewSession, catch
CreateReject ==
    \E i \in 1..Len(sessionCalls) :
        /\ sessionCalls[i].op = "createSession"
        /\ error' = << "Failed to create new session" >>
        /\ sessionCalls' = RemoveAt(sessionCalls, i)
        /\ lastSelect' = << >>
        /\ UNCHANGED << messages, currentSession, sessions, chatIsLoading, created,
                        sessionFrame >>

\* deleteSession, up to the await; the closure holds currentSession and sessions
DeleteSession ==
    \E id \in SessionIds(sessions) :
        /\ mounted
        /\ Len(sessionCalls) < MaxCalls
        /\ sessionCalls' = Append(sessionCalls,
               SessionCall("deleteSession", id, currentSession,
                           WithoutSession(sessions, id)))
        /\ lastSelect' = << >>
        /\ UNCHANGED << messages, currentSession, error, sessions, chatIsLoading,
                        created, sessionFrame >>

\* deleteSession after the await, success
DeleteSessionResolve ==
    \E i \in 1..Len(sessionCalls) :
        /\ sessionCalls[i].op = "deleteSession"
        /\ sessions' = WithoutSession(sessions, sessionCalls[i].id)
        /\ IF sessionCalls[i].current # NoSession
              /\ sessionCalls[i].current[1].id = sessionCalls[i].id
           THEN /\ currentSession' = NoSession
                /\ messages' = << >>
                /\ IF sessionCalls[i].rest # << >>
                   THEN /\ sessionCalls' = Append(RemoveAt(sessionCalls, i),
                               SessionCall("getSession", sessionCalls[i].rest[1],
                                           NoSession, << >>))
                        /\ chatIsLoading' = TRUE
                   ELSE /\ sessionCalls' = RemoveAt(sessionCalls, i)
                        /\ UNCHANGED chatIsLoading
           ELSE /\ sessionCalls' = RemoveAt(sessionCalls, i)
                /\ UNCHANGED << currentSession, messages, chatIsLoading >>
        /\ lastSelect' = << >>
        /\ UNCHANGED << error, created, sessionFrame >>

\* deleteSession, catch
DeleteSessionReject ==
    \E i \in 1..Len(sessionCalls) :
        /\ sessionCalls[i].op = "deleteSession"
        /\ error' = << "Failed to delete session" >>
        /\ sessionCalls' = RemoveAt(sessionCalls, i)
        /\ lastSelect' = << >>
        /\ UNCHANGED << messages, currentSession, sessions, chatIsLoading, created,
                        sessionFrame >>

\* clearSession, up to the await; the closure holds currentSession
ClearSession ==
    \E id \in SessionIds(sessions) :
        /\ mounted
        /\ Len(sessionCalls) < MaxCalls
        /\ sessionCalls' = Append(sessionCalls,
               SessionCall("clearSession", id, currentSession, << >>))
        /\ lastSelect' = << >>
        /\ UNCHANGED << messages, currentSession, error, sessions, chatIsLoading,
                        created, sessionFrame >>

\* clearSession after the await, success
ClearResolve ==
    \E i \in 1..Len(sessionCalls) :
        /\ sessionCalls[i].op = "clearSession"
        /\ messages' =
               IF sessionCalls[i].current # NoSession
                  /\ sessionCalls[i].current[1].id = sessionCalls[i].id
               THEN << >> ELSE messages
        /\ sessionCalls' = RemoveAt(sessionCalls, i)
        /\ lastSelect' = << >>
        /\ UNCHANGED << currentSession, error, sessions, chatIsLoading, created,
                        sessionFrame >>

\* clearSession, catch
ClearReject ==
    \E i \in 1..Len(sessionCalls) :
        /\ sessionCalls[i].op = "clearSession"
        /\ error' = << "Failed to clear session" >>
        /\ sessionCalls' = RemoveAt(sessionCalls, i)
        /\ lastSelect' = << >>
        /\ UNCHANGED << messages, currentSession, sessions, chatIsLoading, created,
                        sessionFrame >>

SessionNext ==
    \/ GetSessionsResolve
    \/ GetSessionsReject
    \/ SelectSession
    \/ GetSessionResolve
    \/ GetSessionReject
    \/ CreateSession
    \/ CreateResolve
    \/ CreateReject
    \/ DeleteSession
    \/ DeleteSessionResolve
    \/ DeleteSessionReject
    \/ ClearSession
    \/ ClearResolve
    \/ ClearReject
    \/ Submit
    \/ SendResolve
    \/ SendReject

SessionSpec == InitSession /\ [][SessionNext]_vars

\* ------------------------------------------------------------ authReducer
\* the reducer alone: every sequence of actions of the AuthAction type, up to
\* MaxDispatch of them, applied to initialState
MaxDispatch == 3

\* what AUTH_ERROR carries: error.response?.data?.message || 'Login failed'
ErrorPayloads == { "Login failed", "Signup failed", "Invalid credentials" }

\* the values of the AuthAction type
AuthActions ==
    { [ type |-> t ] : t \in { "AUTH_START", "AUTH_LOGOUT", "CLEAR_ERROR" } }
    \cup { AuthSuccess(t, << u >>) : t \in Tokens, u \in Users }
    \cup { [ type |-> "AUTH_ERROR", payload |-> e ] : e \in ErrorPayloads }

\* the values of the AuthState type
AuthStates ==
    [ user : { << >> } \cup { << u >> : u \in Users },
      token : { << >> } \cup { << t >> : t \in Tokens },
      isAuthenticated : BOOLEAN,
      isLoading : BOOLEAN,
      error : { << >> } \cup { << e >> : e \in ErrorPayloads } ]

\* useReducer(authReducer, initialState) before any dispatch
InitReducer ==
    /\ InitChat
    /\ currentSession = NoSession
    /\ SessionsLoaded
    /\ evtType = EventNames[1]
    /\ evtPayload = EmptyPayload
    /\ DocUnmounted
    /\ UploadEmpty
    /\ ConfigDone
    /\ ScraperEmpty
    /\ storage = [ k \in StorageKeys |-> << >> ]
    /\ auth = initialState
    /\ location = "/login"
    /\ socket = NoSocket
    /\ socketFor = << >>
    /\ booting = FALSE
    /\ href = << >>
    /\ requests = << >>
    /\ lastOp = "other"
    /\ lastResponse = << >>
    /\ dispatched = << >>
    /\ opened = "/login"

\* dispatch(action)
Dispatch ==
    \E action \in AuthActions :
        /\ Len(dispatched) < MaxDispatch
        /\ auth' = authReducer(auth, action)
        /\ dispatched' = Append(dispatched, action)
        /\ UNCHANGED << storage, location, href, requests, socket, socketFor,
                        booting, lastOp, lastResponse, opened, chatViewVars,
                        docVars, uploadVars, configVars, scrapeVars >>

ReducerSpec == InitReducer /\ [][Dispatch]_vars

\* ------------------------------------------------------------ MessageInput
\* characters typed into the textarea
MaxDraft == 2

\* calls of handleSubmit
MaxSubmits == 3

\* handleSubmit: if (message.trim() && !disabled)
Accepts(message, disabled) == Trim(message) # << >> /\ ~disabled

\* the chat view with its form, a session loaded or not
InitSend ==
    /\ InitChat
    /\ currentSession \in { NoSession, << [ id |-> 1 ] >> }
    /\ SessionsLoaded
    /\ evtType = EventNames[1]
    /\ evtPayload = EmptyPayload
    /\ PagesUnmounted

\* onChange of the textarea, which is disabled while a message is being sent;
\* the form is rendered only when there is a current session
TypeText ==
    \E c \in { Blank, "q" } :
        /\ mounted
        /\ currentSession # NoSession
        /\ ~isSending
        /\ Len(draft) < MaxDraft
        /\ draft' = Append(draft, c)
        /\ UNCHANGED << submits, narratorVars, chatVars, listeners, mounted, dropped,
                        handled, inputVars, pageVars >>

\* MessageInput.handleSubmit with disabled={isSending}: onSendMessage(message.trim())
\* and setMessage(''), or nothing
HandleSubmit ==
    /\ mounted
    /\ currentSession # NoSession
    /\ submits < MaxSubmits
    /\ submits' = submits + 1
    /\ IF Accepts(draft, isSending)
       THEN /\ question < MaxQuestions
            /\ sendMessage(Trim(draft))
            /\ draft' = << >>
       ELSE UNCHANGED << draft, narratorVars, chatVars, listeners, mounted, dropped,
                         handled, inputVars, pageVars >>

SendNext ==
    \/ TypeText
    \/ HandleSubmit
    \/ SendResolve
    \/ SendReject
    \/ Unmount

\* every message request is answered or fails
SendSpec ==
    InitSend /\ [][SendNext]_vars /\ WF_vars(SendResolve \/ SendReject)

\* ================================================================ claims
\* the step hands an event to a handler; the event is Last(wire')
HandlesEvent == handled' = handled + 1

\* the step runs the callback of a status-clear timer
FiresTimer == Len(timers') < Len(timers)

\* the step is an accepted sendMessage
AcceptsSend == question' = question + 1

\* C1: after any sequence of pipeline events, accepted sendMessage calls and
\* timer firings, the status list has no two adjacent identical strings.
C1_NoAdjacentDuplicates ==
    \A i \in 1..(Len(statusMessages) - 1) : statusMessages[i] # statusMessages[i + 1]

\* a question is under way, the same event was handled twice in a row and
\* the list shows its line once
C1_Witness ==
    /\ question = 1
    /\ Len(wire) = 2
    /\ wire[1] = wire[2]
    /\ Len(statusMessages) = 1

\* C2: handling ai_start sets streaming to true, handling ai_done sets it to
\* false, the five other events leave it as it was, and no other step changes
\* it: streaming is true exactly when the last handled event among ai_start
\* and ai_done was ai_start.
C2_StreamingFollowsAi ==
    [][ IF HandlesEvent
        THEN /\ Last(wire').type = "ai_start" => streaming' = TRUE
             /\ Last(wire').type = "ai_done" => streaming' = FALSE
             /\ Last(wire').type \notin { "ai_start", "ai_done" } =>
                    streaming' = streaming
        ELSE streaming' = streaming ]_vars

\* ai_start raised the flag, search_start left it up, ai_done lowered it
C2_Witness ==
    /\ question = 1
    /\ ~streaming
    /\ Len(wire) = 3
    /\ wire[1].type = "ai_start"
    /\ wire[2].type = "search_start"
    /\ wire[3].type = "ai_done"

\* C3: every ai_done schedules exactly one clear, 3 seconds later; no other
\* step schedules one; right after a clear timer fires the status list is
\* empty.
C3_ClearAfterDone ==
    [][ /\ (HandlesEvent /\ Last(wire').type = "ai_done") =>
              /\ Len(timers') = Len(timers) + 1
              /\ SubSeq(timers', 1, Len(timers)) = timers
              /\ Last(timers').delay = 3 * 1000
        /\ ~(HandlesEvent /\ Last(wire').type = "ai_done") =>
              Len(timers') <= Len(timers)
        /\ FiresTimer => (statusMessages' = << >> /\ timers' = Tail(timers)) ]_vars

\* the timer of ai_done has fired: "Answer ready." and the earlier line are gone
C3_Witness ==
    /\ Len(wire) = 2
    /\ wire[2].type = "ai_done"
    /\ timers = << >>
    /\ statusMessages = << >>

\* C4: an accepted sendMessage leaves the status list and the raw event log
\* empty in the state in which its request is in flight, so both are empty
\* before the first event of the new question is handled.
C4_SendResets ==
    [][ AcceptsSend =>
            /\ statusMessages' = << >>
            /\ pipelineSteps' = << >>
            /\ Len(pending') = Len(pending) + 1
            /\ isSending' ]_vars

\* the first question was sent while the line of an ai_done handled before
\* it was still shown
C4_Witness ==
    /\ question = 1
    /\ pending # << >>
    /\ wire = << >>
    /\ handled = 1
    /\ timers # << >>
    /\ statusMessages = << >>
    /\ pipelineSteps = << >>

\* the count a payload carries for an event: the number of results (or, with
\* no result in the array, the resultCount) for search_results, the number of
\* passages for rag_context, 0 when the payload carries none
CarriedCount(type, payload) ==
    CASE type = "search_results" ->
           IF payload.results \notin { << >>, << 0 >> } THEN payload.results[1]
           ELSE IF payload.resultCount # << >> THEN payload.resultCount[1]
           ELSE 0
      [] type = "rag_context" ->
           IF payload.passages # << >> THEN payload.passages[1] ELSE 0
      [] OTHER -> 0

\* C5: one delivery of any of the seven events leaves exactly one status
\* line; every payload that carries the same count gives the same line for
\* that event; no payload of another event gives that line.
C5_OneLinePerEvent ==
    handled = 1 =>
        /\ Len(statusMessages) = 1
        /\ \A p \in Payloads :
               CarriedCount(evtType, p) = CarriedCount(evtType, evtPayload) =>
                   StatusLines(evtType, p) = statusMessages
        /\ \A t \in EventSet \ { evtType } : \A p \in Payloads :
               StatusLines(t, p) # statusMessages

\* rag_context was delivered with two passages and, beside them, one result
C5_Witness ==
    /\ handled = 1
    /\ evtType = "rag_context"
    /\ evtPayload.passages = << 2 >>
    /\ evtPayload.results = << 1 >>
    /\ Len(statusMessages) = 1

\* C6: the line of search_results and of rag_context reads "passage" when
\* the count is 1 and "passages" for every other count, 0 included.
C6_SingularOnlyForOne ==
    handled = 1 =>
        LET n == CarriedCount(evtType, evtPayload) IN
        /\ evtType = "search_results" =>
               statusMessages =
                   IF n = 1
                   THEN << "Found 1 candidate passage. Refining context..." >>
                   ELSE << "Found " \o ToString(n)
                           \o " candidate passages. Refining context..." >>
        /\ evtType = "rag_context" =>
               statusMessages =
                   IF n = 1
                   THEN << "Selected top 1 passage to ground the answer." >>
                   ELSE << "Selected top " \o ToString(n)
                           \o " passages to ground the answer." >>

\* search_results was delivered with an empty result array and resultCount 1
C6_Witness ==
    /\ handled = 1
    /\ evtType = "search_results"
    /\ evtPayload.results = << 0 >>
    /\ evtPayload.resultCount = << 1 >>
    /\ statusMessages = << "Found 1 candidate passage. Refining context..." >>

\* the line the event handled by the step offers
OfferedLine == StatusLines(Last(wire').type, Last(wire').info)[1]

\* C7: a line equal to the current last line leaves the list as it is; any
\* other line is appended at the end and the earlier lines keep their place.
C7_AppendOrSuppress ==
    [][ HandlesEvent =>
            IF statusMessages # << >> /\ Last(statusMessages) = OfferedLine
            THEN statusMessages' = statusMessages
            ELSE statusMessages' = Append(statusMessages, OfferedLine) ]_vars

\* a list of the form A, B, A
C7_Witness ==
    /\ Len(statusMessages) = 3
    /\ statusMessages[1] = statusMessages[3]
    /\ statusMessages[1] # statusMessages[2]

RECURSIVE IsSubsequence(_, _)
\* s can be obtained from t by deleting elements
IsSubsequence(s, t) ==
    IF s = << >> THEN TRUE
    ELSE IF t = << >> THEN FALSE
    ELSE IF Head(s) = Head(t) THEN IsSubsequence(Tail(s), Tail(t))
    ELSE IsSubsequence(s, Tail(t))

\* the lines of the events of a log, in log order
LinesOf(log) ==
    [ i \in DOMAIN log |-> StatusLines(log[i].type, log[i].info)[1] ]

\* C8: the raw event log holds the events handed to the handlers since the
\* last reset, one entry each and in delivery order, and the status list is a
\* subsequence of the lines of those events.
C8_LogInDeliveryOrder ==
    /\ pipelineSteps = wire
    /\ IsSubsequence(statusMessages, LinesOf(pipelineSteps))

\* three events were logged in order though the line of the second was
\* suppressed as a duplicate of the first
C8_Witness ==
    /\ Len(pipelineSteps) = 3
    /\ pipelineSteps[1].type = "search_start"
    /\ pipelineSteps[2].type = "search_start"
    /\ pipelineSteps[3].type = "ai_start"
    /\ Len(statusMessages) = 2

\* C9: once the view is unmounted no event name has a handler, and no step
\* other than a timer callback changes the status list, the raw event log or
\* the streaming flag.
C9_DetachedAfterUnmount ==
    /\ [](~mounted => listeners \cap EventSet = { })
    /\ [][ (~mounted /\ ~FiresTimer) =>
               UNCHANGED << statusMessages, pipelineSteps, streaming >> ]_vars

\* an event arrived after the unmount and the shown state is as it was
C9_Witness ==
    /\ ~mounted
    /\ dropped
    /\ streaming
    /\ Len(statusMessages) = 2
    /\ Len(pipelineSteps) = 2

\* C10: a clear timer removes only lines of the question whose ai_done
\* scheduled it (questions are numbered from 1).
C10_TimerClearsOwnQuestion ==
    [][ (FiresTimer /\ Head(timers).q >= 1) =>
            \A i \in DOMAIN statusQ : statusQ[i] = Head(timers).q ]_vars

\* C11: every failed remote call leaves the user a visible error message or
\* alert, and no failure ends with the view showing data as if the call had
\* succeeded. For the document list: once a load of the list has failed, a
\* dialog has been shown and every document on display is one the server
\* answered.
C11_FailedLoadIsShown ==
    (\E i \in 1..Len(docFailed) : docFailed[i] = GetDocuments)
        => /\ docAlerts # << >>
           /\ DocIds(documents) \subseteq DocIds(serverDocs)

ProtectedPages == { "ChatInterface", "ContentManagementPage" }

PublicPages == { "Login", "Signup" }

\* C12: a protected route renders its page only while isAuthenticated is true
\* and otherwise, when not loading, redirects to /login; a public route renders
\* its page only while isAuthenticated is false and otherwise redirects to
\* /chat; no protected page is rendered for an unauthenticated auth state.
C12_RouteGuards ==
    /\ View(location, auth) \in ProtectedPages => auth.isAuthenticated
    /\ View(location, auth) \in PublicPages => ~auth.isAuthenticated
    /\ location \in ProtectedPaths => auth.isAuthenticated \/ auth.isLoading
    /\ location \in PublicPaths => ~auth.isAuthenticated
    /\ \A path \in ProtectedPaths :
        ~auth.isAuthenticated /\ ~auth.isLoading
            => RouteElement(path, auth) = Navigate("/login")
    /\ \A path \in PublicPaths :
        auth.isAuthenticated => RouteElement(path, auth) = Navigate("/chat")

\* a logout on a protected page, after the chat had been on screen, has
\* moved the router to /login
C12_Witness ==
    /\ lastOp = "logout"
    /\ socket.state # "none"
    /\ location = "/login"
    /\ View(location, auth) = "Login"

\* the step is the mount effect of AuthProvider
RunsMountEffect == booting /\ ~booting'

\* C13: on application load, if localStorage holds both access_token and a
\* user entry that parses as JSON, the auth state becomes authenticated with
\* exactly that token and user; if the user entry does not parse, both keys
\* are removed and the state stays unauthenticated; if either key is absent
\* the state stays unauthenticated and storage is left unchanged.
C13_LoadFromStorage ==
    [][ RunsMountEffect =>
          LET t == storage["access_token"]
              u == storage["user"]
          IN  /\ (t # << >> /\ u # << >> /\ Parse(u[1]).ok) =>
                    /\ auth'.isAuthenticated
                    /\ auth'.token = t
                    /\ auth'.user = Parse(u[1]).value
                    /\ \A w \in Users : u[1] = Stringify(w) => auth'.user = << w >>
                    /\ storage' = storage
              /\ (t # << >> /\ u # << >> /\ ~Parse(u[1]).ok) =>
                    /\ storage'["access_token"] = << >>
                    /\ storage'["user"] = << >>
                    /\ ~auth'.isAuthenticated
              /\ (t = << >> \/ u = << >>) =>
                    /\ ~auth'.isAuthenticated
                    /\ storage' = storage ]_vars

\* a load has found the token t2 and the entry of user 2 and made them the
\* auth state
C13_Witness ==
    /\ lastOp = "load"
    /\ auth.isAuthenticated
    /\ auth.token = << "t2" >>
    /\ auth.user = << [ id |-> 2, name |-> "bob" ] >>
    /\ storage["user"] = << Stringify([ id |-> 2, name |-> "bob" ]) >>

\* C14: a response with status 401 to any request makes the interceptor
\* remove access_token and user from localStorage and navigate to /login, the
\* error still being rejected to the caller; an error response with any other
\* status, and a success handed on to a caller that is not login or signup,
\* leave localStorage unchanged.
C14_UnauthorizedClearsStorage ==
    [][ lastResponse' # << >> =>
          LET r == lastResponse'[1]
          IN  /\ r.status = Unauthorized =>
                    /\ storage'["access_token"] = << >>
                    /\ storage'["user"] = << >>
                    /\ href' = << "/login" >>
                    /\ r.outcome = "rejected"
                    /\ r.op # "api" => auth'.error # << >>
              /\ (r.status # Unauthorized /\ r.status # 200) =>
                    /\ storage' = storage
                    /\ href' = href
                    /\ r.outcome = "rejected"
              /\ (r.status = 200 /\ r.op = "api") =>
                    /\ storage' = storage
                    /\ href' = href ]_vars

\* a signed-in user's request has been answered 401: the keys are gone and
\* the browser is about to load /login
C14_Witness ==
    /\ lastResponse # << >>
    /\ lastResponse[1].status = Unauthorized
    /\ lastResponse[1].op = "api"
    /\ auth.isAuthenticated
    /\ storage["access_token"] = << >>
    /\ storage["user"] = << >>
    /\ href = << "/login" >>

\* C15: the socket is connected with the user's auth token: the credential
\* passed when the socket is created is the access token that login stored.
C15_SocketCarriesAccessToken ==
    socket.state # "none" => socket.auth = socketFor

\* C19: after logout, from whatever state, localStorage holds neither
\* access_token nor user, isAuthenticated is false and user, token and error
\* are null, and the request that follows carries no Authorization header.
C19_LogoutClears ==
    [][ /\ lastOp' = "logout" =>
              /\ storage'["access_token"] = << >>
              /\ storage'["user"] = << >>
              /\ ~auth'.isAuthenticated
              /\ auth'.user = << >>
              /\ auth'.token = << >>
              /\ auth'.error = << >>
              /\ requestInterceptor(storage') = << >>
        /\ (lastOp = "logout" /\ Len(requests') > Len(requests)) =>
              Last(requests').header = << >> ]_vars

\* a user who had the chat open has logged out and a login request has been
\* sent since, without a header
C19_Witness ==
    /\ socket.state = "connected"
    /\ ~auth.isAuthenticated
    /\ auth.isLoading
    /\ requests # << >>
    /\ Last(requests).op = "login"
    /\ Last(requests).header = << >>

Uploading == { j \in 1..Len(files) : files[j].status = "uploading" }

\* C16: files are uploaded one at a time: in every reachable state, also when
\* the Upload button is pressed again during a run, at most one file has
\* status 'uploading' and at most one uploadFile request is in flight.
C16_OneUploadAtATime ==
    /\ Cardinality(Uploading) <= 1
    /\ Cardinality(uploadRequests) <= 1

\* the file of run r that the step's rejection was for
RejectedIn(r) ==
    /\ r <= Len(runs)
    /\ Len(runs'[r].failed) = Len(runs[r].failed) + 1

\* C17: a failed upload does not stop the run: the file gets status 'error'
\* with a message, every later pending file of the run is still attempted, and
\* onUploadComplete is called exactly once, at the end of the run.
C17_FailureDoesNotStopRun ==
    [][ \A r \in 1..Len(runs') :
          /\ RejectedIn(r) =>
                \A j \in 1..Len(files') :
                    files'[j].id = Last(runs'[r].failed) =>
                        /\ files'[j].status = "error"
                        /\ files'[j].error # << >>
                        /\ files'[j].error # << "" >>
          /\ runs'[r].pc = "done" =>
                /\ runs'[r].attempted = runs'[r].queue
                /\ runs'[r].completes = 1
          /\ runs'[r].pc # "done" =>
                /\ runs'[r].completes = 0
                /\ runs'[r].attempted = SubSeq(runs'[r].queue, 1, runs'[r].i) ]_vars

\* a run of two files has ended after its first upload failed: the file
\* shows the error and the later file was uploaded
C17_Witness ==
    /\ Len(runs) = 1
    /\ runs[1].pc = "done"
    /\ runs[1].failed = << 1 >>
    /\ runs[1].attempted = << 1, 2 >>
    /\ runs[1].completes = 1
    /\ Len(files) = 2
    /\ files[1].status = "error"
    /\ files[1].error = << UploadFailedText >>
    /\ files[2].status = "success"

\* C18: validateConfig logs a warning naming each required environment
\* variable that is not set, and the configuration then uses the default
\* value for it. Here: once validateConfig has run with a required variable
\* not set, a warning has been logged and config holds the defaults.
C18_WarnsForMissingRequired ==
    validated =>
        /\ (\E i \in 1..Len(requiredEnvVars) : env[requiredEnvVars[i]] = << >>)
              => warnings # << >>
        /\ env["REACT_APP_API_BASE_URL"] = << >>
              => << config.API_BASE_URL >> = getDefaultValue("REACT_APP_API_BASE_URL")
        /\ env["REACT_APP_SOCKET_URL"] = << >>
              => << config.SOCKET_URL >> = getDefaultValue("REACT_APP_SOCKET_URL")

\* how many entries of seq equal x
RECURSIVE CountOf(_, _)
CountOf(seq, x) ==
    IF seq = << >> THEN 0
    ELSE (IF Head(seq) = x THEN 1 ELSE 0) + CountOf(Tail(seq), x)

\* C20: in processSelectedUrls every selected link is ingested exactly once, a
\* failure of one link does not stop the remaining links, and at the end
\* successCount + failCount equals the number of selected links, with
\* failCount reported in the result message.
C20_EveryLinkOnce ==
    \A k \in 1..Len(batches) :
        LET b == batches[k]
        IN  /\ b.successCount = CountOf(b.outcomes, "ingested")
            /\ b.failCount = CountOf(b.outcomes, "failed")
            /\ b.pc = "ingest" =>
                  /\ b.ingested = SubSeq(b.links, 1, b.i)
                  /\ Len(b.outcomes) = b.i - 1
            /\ b.pc = "done" =>
                  /\ b.ingested = b.links
                  /\ Len(b.outcomes) = Len(b.links)
                  /\ b.successCount + b.failCount = Len(b.links)
                  /\ b.message =
                        << "Processed " \o ToString(CountOf(b.outcomes, "ingested"))
                           \o " URLs, " \o ToString(CountOf(b.outcomes, "failed"))
                           \o " failed" >>

\* a batch of two links has ended, the first link failed and the second was
\* ingested, and the job shows the message
C20_Witness ==
    /\ Len(batches) = 1
    /\ batches[1].pc = "done"
    /\ batches[1].links = << 1, 2 >>
    /\ batches[1].outcomes = << "failed", "ingested" >>
    /\ batches[1].ingested = << 1, 2 >>
    /\ \E j \in 1..Len(urls) : urls[j].result = << "Processed 1 URLs, 1 failed" >>

\* a step in which the response of the oldest message request is handled
CompletesSend == pending # << >> /\ pending' = Tail(pending)

\* ... by the catch block of sendMessage
FailsSend == CompletesSend /\ error' = << "Failed to send message" >>

\* ... by the lines after the await
AnswersSend == CompletesSend /\ error' # << "Failed to send message" >>

\* C21: when the request of a send fails, the list loses the temporary user
\* message of that send and nothing else: every other message stays, in order,
\* and isSending is false again; also when a session was selected, created,
\* cleared or deleted while the request was in flight.
C21_FailedSendRemovesOnlyItsMessage ==
    [][ FailsSend =>
          /\ messages' = SelectSeq(messages,
                 LAMBDA m : m # Head(pending).userMessage)
          /\ ~isSending' ]_vars

\* C22: the answer to a message sent in session S is appended only while S is
\* the current session, and handling it removes no message other than the
\* temporary copy of the message it answers.
C22_AnswerGoesToItsSession ==
    [][ AnswersSend =>
          /\ currentSession' # NoSession
          /\ currentSession'[1].id = Head(pending).sessionId
          /\ \A k \in 1..Len(messages) :
                 messages[k] # Head(pending).userMessage
                     => \E j \in 1..Len(messages') : messages'[j] = messages[k] ]_vars

\* C23: the current session is null or a session of the sessions list; in
\* particular a deleted session is never current.
C23_CurrentSessionIsListed ==
    currentSession = NoSession \/ currentSession[1].id \in SessionIds(sessions)

\* C24: once the loads started by the clicks on the sidebar have returned, the
\* current session is the one clicked last, in whatever order they returned.
C24_LastSelectedWins ==
    ( /\ lastSelect # << >>
      /\ \A i \in 1..Len(sessionCalls) : sessionCalls[i].op # "getSession" )
        => currentSession = << [ id |-> lastSelect[1] ] >>

\* run r calls contentAPI.uploadFile in this step
SendsFile(r) ==
    Len(runs'[r].attempted) > (IF r <= Len(runs) THEN Len(runs[r].attempted) ELSE 0)

\* C25: a file is handed to uploadFile only while it is in the list with status
\* 'pending': so each file is sent at most once, its status never goes back from
\* 'uploading', 'success' or 'error', and a file removed while pending is never
\* uploaded; also when uploadFiles is started again during a run.
C25_OnlyPendingFilesAreSent ==
    [][ \A r \in 1..Len(runs') :
          SendsFile(r) =>
              \E j \in 1..Len(files) :
                  /\ files[j].id = Last(runs'[r].attempted)
                  /\ files[j].status = "pending" ]_vars

\* the action of the dispatch of this step
Dispatches(types) ==
    /\ dispatched' # dispatched
    /\ Last(dispatched').type \in types

C27_StreamingFalseAtNewQuestion ==
    [][ AcceptsSend => ~streaming' ]_vars

\* localStorage holds an access token and the JSON text of a user
HoldsSession(st) ==
    /\ TruthyStr(getItem(st, "access_token"))
    /\ TruthyStr(getItem(st, "user"))
    /\ Parse(getItem(st, "user")[1]).ok
    /\ Parse(getItem(st, "user")[1]).value # << >>

\* C28: sessions persist across a reload: when the page was loaded at a
\* protected route with an access token and a valid user entry in localStorage,
\* then once the stored session has been read the router is on the route that
\* was opened, not on /login and not on another page.
C28_ReloadKeepsRoute ==
    ( /\ lastOp = "load"
      /\ HoldsSession(storage)
      /\ opened \in ProtectedPaths )
        => location = opened

\* the step confirms the preview: Process Selected starts a batch
ConfirmsPreview == Len(batches') = Len(batches) + 1

\* C29: when the user confirms a preview, the job that processSelectedUrls
\* will mark with the result is the job whose address was previewed, also when
\* other pending jobs stand earlier in the list.
C29_ResultGoesToPreviewedJob ==
    [][ ConfirmsPreview =>
          Last(batches').currentJob = << previewData[1].url >> ]_vars

\* the step is a call of handleSubmit
CallsHandleSubmit == submits' = submits + 1

\* C30: every accepted sendMessage ends with isSending false once its request
\* has resolved or rejected; at most one message request is in flight, because
\* a submit while isSending is true is not accepted; a submit of a blank
\* message changes nothing and sends nothing; without a current session
\* nothing is ever sent.
C30_SendEndsAndIsExclusive ==
    /\ isSending ~> ~isSending
    /\ [](Len(pending) <= 1)
    /\ [](isSending <=> pending # << >>)
    /\ [](currentSession = NoSession => question = 0 /\ pending = << >>)
    /\ [][ (CallsHandleSubmit /\ (isSending \/ Trim(draft) = << >>)) =>
             UNCHANGED << draft, narratorVars, chatVars, listeners, mounted,
                          dropped, handled >> ]_vars

\* handleSubmit has run three times: one call was ignored, the first request
\* has ended and the second message is being sent
C30_Witness ==
    /\ submits = 3
    /\ question = 2
    /\ isSending
    /\ Len(pending) = 1
    /\ Len(messages) = 3

====
